---- MODULE Spec2Model ----
(***************************************************************************)
(* Handsome-tracker: the per-minute digest scheduler                       *)
(* (services/scheduler_service.py), the settings table it reads and the    *)
(* handlers that write it (bot.py), and the calendar writes                *)
(* (services/calendar_service.py).                                         *)
(*                                                                         *)
(* Instants are minutes since the model's epoch, midnight UTC of day 0.    *)
(* A clock text "HH:MM" is the pair <<HH, MM>>; two such texts are equal   *)
(* exactly when the pairs are, because every writer formats with %02d.     *)
(***************************************************************************)
EXTENDS Integers, Sequences, FiniteSets, TLC

VARIABLES
    now,        \* the UTC instant of the wall clock
    settings,   \* table settings: chat_id -> row
    tokens,     \* table google_oauth_tokens: chat_id -> a row is stored
    running,    \* scheduler.running
    jobs,       \* the scheduler's job store: sequence of job ids
    lastTick,   \* what the last run of check_and_send_briefings did
    fires,      \* history: per chat and digest kind, its last two invocations
    opsLeft,    \* inbound updates the model still delivers
    written,    \* the last body handed to the Calendar API
    user_data,  \* context.user_data of each chat
    handled,    \* the last text update handled in a waiting_for state
    parsing,    \* the task message whose parse awaits the language model
    calendar,   \* the events of the chat's Google Calendar
    digest,     \* the last digest message built from the calendar
    access,     \* the last handler run that reached for the calendar
    chat_data   \* context.chat_data of each chat

dialogVars == <<user_data, handled, parsing, access, chat_data>>
digestVars == <<calendar, digest>>

vars == <<now, settings, tokens, running, jobs, lastTick, fires, opsLeft, written,
          user_data, handled, parsing, calendar, digest, access, chat_data>>

----------------------------------------------------------------------------
(* Bounds of the model *)

MaxHours == 33
MaxOps == 2

(* Program constants *)

MinutesPerHour == 60
HoursPerDay == 24

MinutesPerDay == HoursPerDay * MinutesPerHour

Chats == {1, 2}

NULL == "NULL"
DEFAULT_TZ == "UTC"
DEFAULT_MORNING == <<9, 0>>
DEFAULT_EVENING == <<21, 0>>

\* The digest times the model's inputs can store, defaults included
OfferedTimes == {DEFAULT_MORNING, DEFAULT_EVENING, <<2, 0>>}

Horizon == MaxHours * MinutesPerHour

----------------------------------------------------------------------------
(* The timezone database (pytz), as far as the scheduler uses it *)

KnownZones == {"UTC", "Europe/Paris"}
UnknownZone == "America/Ciudad_Juarez"

\* Europe/Paris is on summer time (UTC+2) until 01:00 UTC of day 1, the last
\* Sunday of October, when local 03:00 becomes 02:00, and on standard time
\* (UTC+1) until 01:00 UTC of the Sunday 21 weeks later.
DstEnd == MinutesPerDay + MinutesPerHour

\* the process is started at 06:00 UTC of day 0
Boot == 6 * MinutesPerHour
DstStart == 148 * MinutesPerDay + MinutesPerHour

ParisOffsetFixed(t) == 2 * MinutesPerHour

ParisOffset(t) ==
    IF t < DstEnd \/ t >= DstStart THEN 2 * MinutesPerHour ELSE MinutesPerHour

utcoffset(tz, t) == IF tz = "Europe/Paris" THEN ParisOffset(t) ELSE 0

\* now_utc.astimezone(user_tz): the wall clock of zone tz at instant t
astimezone(t, tz) == t + utcoffset(tz, t)

\* strftime("%H:%M") of a wall clock
strftime_HM(wall) == <<(wall \div MinutesPerHour) % HoursPerDay, wall % MinutesPerHour>>

\* .date() of a wall clock, as a day number
date(wall) == wall \div MinutesPerDay

\* The cron trigger fires every minute.  At a quiet instant the local clock
\* of no zone reads a time the table can hold, so the run at that instant
\* compares unequal for every row and sends nothing whatever the table
\* holds.  The model's clock steps from one instant that is not quiet to
\* the next; the runs in between are the no-ops it leaves out.
Quiet(t) ==
    \A tz \in KnownZones, tm \in OfferedTimes : strftime_HM(astimezone(t, tz)) # tm

RECURSIVE FirstTickFrom(_)
FirstTickFrom(t) == IF Quiet(t) THEN FirstTickFrom(t + MinutesPerHour) ELSE t

NextTick(t) == FirstTickFrom(t + MinutesPerHour)

----------------------------------------------------------------------------
(* Table settings (bot.py init_db) and its writers *)

NoRow == [present |-> FALSE, tz |-> NULL, user_name |-> NULL,
          morning_time |-> DEFAULT_MORNING, evening_time |-> DEFAULT_EVENING,
          onboard_done |-> 0]

\* INSERT ... VALUES (chat_id, tz, '09:00', '21:00', COALESCE(onboard_done, 0))
\* ON CONFLICT(chat_id) DO UPDATE SET tz = excluded.tz
set_user_timezone_all(tbl, chat_id, tzname) ==
    [c \in Chats |->
        IF tbl[c].present THEN [tbl[c] EXCEPT !.tz = tzname]
        ELSE IF c = chat_id THEN [NoRow EXCEPT !.present = TRUE, !.tz = tzname]
        ELSE tbl[c]]

\* INSERT OR REPLACE: the row is written anew, onboard_done back at 0
set_user_timezone_replace(tbl, chat_id, tzname) ==
    [tbl EXCEPT ![chat_id] = [NoRow EXCEPT !.present = TRUE, !.tz = tzname]]

set_user_timezone(tbl, chat_id, tzname) ==
    [tbl EXCEPT ![chat_id] =
        IF @.present THEN [@ EXCEPT !.tz = tzname]
        ELSE [NoRow EXCEPT !.present = TRUE, !.tz = tzname]]

\* INSERT ... (chat_id, user_name, '09:00', '21:00', COALESCE(onboard_done, 0))
\* ON CONFLICT(chat_id) DO UPDATE SET user_name = excluded.user_name
set_user_name(tbl, chat_id, name) ==
    [tbl EXCEPT ![chat_id] =
        IF @.present THEN [@ EXCEPT !.user_name = name]
        ELSE [NoRow EXCEPT !.present = TRUE, !.user_name = name]]

\* INSERT ... (chat_id, morning_time, '21:00', COALESCE(onboard_done, 0))
\* ON CONFLICT(chat_id) DO UPDATE SET morning_time = excluded.morning_time
set_morning_time(tbl, chat_id, time_str) ==
    [tbl EXCEPT ![chat_id] =
        IF @.present THEN [@ EXCEPT !.morning_time = time_str]
        ELSE [NoRow EXCEPT !.present = TRUE, !.morning_time = time_str]]

\* INSERT ... (chat_id, '09:00', evening_time, COALESCE(onboard_done, 0))
\* ON CONFLICT(chat_id) DO UPDATE SET evening_time = excluded.evening_time
set_evening_time(tbl, chat_id, time_str) ==
    [tbl EXCEPT ![chat_id] =
        IF @.present THEN [@ EXCEPT !.evening_time = time_str]
        ELSE [NoRow EXCEPT !.present = TRUE, !.evening_time = time_str]]

\* INSERT ... (chat_id, COALESCE(tz, DEFAULT_TZ), onboard_done)
\* ON CONFLICT(chat_id) DO UPDATE SET onboard_done = excluded.onboard_done
set_onboarded(tbl, chat_id, done) ==
    [tbl EXCEPT ![chat_id] =
        IF @.present THEN [@ EXCEPT !.onboard_done = IF done THEN 1 ELSE 0]
        ELSE [NoRow EXCEPT !.present = TRUE, !.tz = DEFAULT_TZ,
                            !.onboard_done = IF done THEN 1 ELSE 0]]

\* parse_utc_offset: the entries of tz_map the model offers
parse_utc_offset(text) ==
    IF text = "UTC+1" THEN "Europe/Paris" ELSE NULL

\* pytz.timezone(name) returns a zone; UnknownTimeZoneError otherwise
pytz_knows(name) == name \in KnownZones

----------------------------------------------------------------------------
(* services/scheduler_service.py *)

JobId == "minute_briefings_check"

\* a job store that appends whatever it is given
add_job_append(store, id) == Append(store, id)

\* scheduler.add_job(..., id=id, replace_existing=True): the job stored under
\* id is replaced, a new id is appended
add_job(store, id) ==
    IF \E i \in 1..Len(store) : store[i] = id THEN store ELSE Append(store, id)

Modes == {"ok", "compute", "send"}

\* One digest sender (send_morning_briefing, send_evening_recap) for one
\* chat, as the sequence of bot.send_message calls it makes.
\*   "ok":      the body runs to its send_message, which succeeds
\*   "compute": the body raises before it sends (tokens, credentials, AI)
\*   "send":    every send_message to this chat raises
\* The except branch sends the fallback greeting, inside a bare try.
send_digest(chat_id, kind, mode) ==
    IF mode = "ok" THEN
        << [chat |-> chat_id, kind |-> kind, msg |-> "main", ok |-> TRUE] >>
    ELSE IF mode = "compute" THEN
        << [chat |-> chat_id, kind |-> kind, msg |-> "fallback", ok |-> TRUE] >>
    ELSE
        << [chat |-> chat_id, kind |-> kind, msg |-> "main", ok |-> FALSE],
           [chat |-> chat_id, kind |-> kind, msg |-> "fallback", ok |-> FALSE] >>

send_morning_briefing(chat_id, mode) == send_digest(chat_id, "morning", mode)

send_evening_recap(chat_id, mode) == send_digest(chat_id, "evening", mode)

\* SELECT chat_id, tz, morning_time, evening_time FROM settings
\* WHERE onboard_done = 1 AND tz IS NOT NULL, in rowid (= chat_id) order
RECURSIVE select_users(_, _)
select_users(tbl, c) ==
    IF c \notin Chats THEN <<>>
    ELSE (IF tbl[c].present /\ tbl[c].onboard_done = 1 /\ tbl[c].tz # NULL
          THEN << [chat_id |-> c, tz |-> tbl[c].tz,
                   morning_time |-> tbl[c].morning_time,
                   evening_time |-> tbl[c].evening_time] >>
          ELSE <<>>) \o select_users(tbl, c + 1)

\* The table as main() finds it: init_db() creates what is missing and keeps
\* what an earlier run of the process stored.  Chat 1 completed the Google
\* sign-in in an earlier run (google_callback wrote its row), chat 2 is new.
StoredTable == set_onboarded([c \in Chats |-> NoRow], 1, TRUE)

\* the SELECT without its WHERE clause: every row of the table
RECURSIVE select_all(_, _)
select_all(tbl, c) ==
    IF c \notin Chats THEN <<>>
    ELSE (IF tbl[c].present
          THEN << [chat_id |-> c, tz |-> tbl[c].tz,
                   morning_time |-> tbl[c].morning_time,
                   evening_time |-> tbl[c].evening_time] >>
          ELSE <<>>) \o select_all(tbl, c + 1)

fetch_users_unfiltered(tbl) == select_all(tbl, 1)

\* the rows as they were when the process started
fetch_users_at_start(tbl) == select_users(StoredTable, 1)

\* conn = sqlite3.connect(DB_PATH); cursor.execute(SELECT ...); fetchall()
fetch_users(tbl) == select_users(tbl, 1)

\* the clock text the loop body compares, read off the UTC clock
current_time_str_utc(now_utc, tz_str) == strftime_HM(now_utc)

\* now_local = now_utc.astimezone(user_tz); now_local.strftime("%H:%M")
current_time_str(now_utc, tz_str) == strftime_HM(astimezone(now_utc, tz_str))

\* The body of the for loop for one selected row u: what it invoked, the
\* send_message calls made, and whether an exception left the body.
process_user(u, now_utc, mode) ==
    IF ~pytz_knows(u.tz) THEN
        [invoked |-> <<>>, attempts |-> <<>>, raised |-> TRUE]
    ELSE
        LET cur == current_time_str(now_utc, u.tz)
            m == cur = u.morning_time
            e == cur = u.evening_time
        IN  [invoked |->
                (IF m THEN << [chat |-> u.chat_id, kind |-> "morning", tz |-> u.tz,
                               time |-> u.morning_time] >> ELSE <<>>)
                \o (IF e THEN << [chat |-> u.chat_id, kind |-> "evening", tz |-> u.tz,
                                  time |-> u.evening_time] >> ELSE <<>>),
             attempts |->
                (IF m THEN send_morning_briefing(u.chat_id, mode) ELSE <<>>)
                \o (IF e THEN send_evening_recap(u.chat_id, mode) ELSE <<>>),
             raised |-> FALSE]

\* a loop body without its try: the exception leaves the loop
inner_try_missing(r) == r

\* try: ... except Exception: print(...); continue
inner_try(r) == [r EXCEPT !.raised = FALSE]

\* for chat_id, tz_str, morning_time, evening_time in users: ...
RECURSIVE for_users(_, _, _, _)
for_users(users, i, now_utc, modes) ==
    IF i > Len(users) THEN [invoked |-> <<>>, attempts |-> <<>>, raised |-> FALSE]
    ELSE LET r == inner_try(process_user(users[i], now_utc, modes[users[i].chat_id]))
         IN  IF r.raised THEN r
             ELSE LET rest == for_users(users, i + 1, now_utc, modes)
                  IN  [invoked |-> r.invoked \o rest.invoked,
                       attempts |-> r.attempts \o rest.attempts,
                       raised |-> rest.raised]

\* a function body without its try: the exception reaches the caller
outer_try_missing(r) == r

\* try: ... except Exception as e: print(...)
outer_try(r) == [r EXCEPT !.raised = FALSE]

\* check_and_send_briefings(bot) at instant now_utc; db_ok: the settings
\* query succeeds; modes: how each chat's digest sender fares in this run.
run_check_and_send_briefings(tbl, now_utc, db_ok, modes) ==
    LET users == IF db_ok THEN fetch_users(tbl) ELSE <<>>
        body == IF db_ok THEN for_users(users, 1, now_utc, modes)
                ELSE [invoked |-> <<>>, attempts |-> <<>>, raised |-> TRUE]
        r == outer_try(body)
    IN  [at |-> now_utc, users |-> users, query_failed |-> ~db_ok,
         invoked |-> r.invoked, attempts |-> r.attempts, escaped |-> r.raised]

----------------------------------------------------------------------------
(* State after construction: main() has run init_db() on the stored
   database and post_init has called start_scheduler(bot) *)

NoTick == [at |-> -1, users |-> <<>>, query_failed |-> FALSE, invoked |-> <<>>,
           attempts |-> <<>>, escaped |-> FALSE, faulty |-> {}]

NoWrite == [path |-> "none"]

\* context.user_data with no key set
\* a key of context.user_data that holds a list: absent, or the list
NoList == [present |-> FALSE, events |-> <<>>]
NoData == [waiting_for |-> NULL, rescheduling_event_id |-> NULL,
           state |-> NULL, pending_schedule |-> NoList]
NoUpdate == [chat |-> 0]
NoParse == [chat |-> 0]
NoDigest == [kind |-> "none"]
NoAccess == [chat |-> 0]
\* context.chat_data with no key set
NoChatData == [onboard_stage |-> NULL]

\* nothing is in flight and no digest was built: the state of the variables
\* a specification leaves alone
Idle ==
    /\ user_data = [c \in Chats |-> NoData]
    /\ handled = NoUpdate
    /\ parsing = NoParse
    /\ calendar = {}
    /\ digest = NoDigest
    /\ access = NoAccess
    /\ chat_data = [c \in Chats |-> NoChatData]

Init ==
    /\ now = Boot
    /\ settings = StoredTable
    /\ tokens = [c \in Chats |-> StoredTable[c].onboard_done = 1]
    /\ running = TRUE
    /\ jobs = <<JobId>>
    /\ lastTick = NoTick
    /\ fires = [c \in Chats |-> [k \in {"morning", "evening"} |-> <<>>]]
    /\ opsLeft = MaxOps
    /\ written = NoWrite
    /\ Idle

----------------------------------------------------------------------------
(* Scheduler actions *)

\* one more call or inbound update delivered by the model
UsesOp == opsLeft > 0 /\ opsLeft' = opsLeft - 1

\* start_scheduler(bot): if not scheduler.running: add_job(...); start()
start_scheduler ==
    /\ UsesOp
    /\ IF ~running
       THEN jobs' = add_job(jobs, JobId) /\ running' = TRUE
       ELSE UNCHANGED <<jobs, running>>
    /\ UNCHANGED <<now, settings, tokens, lastTick, fires, written, dialogVars, digestVars>>

\* stop_scheduler(): if scheduler.running: scheduler.shutdown().  Whether
\* shutdown empties the in-memory job store is the library's choice; both
\* outcomes are kept.
stop_scheduler ==
    /\ UsesOp
    /\ IF running
       THEN running' = FALSE /\ jobs' \in {jobs, <<>>}
       ELSE UNCHANGED <<jobs, running>>
    /\ UNCHANGED <<now, settings, tokens, lastTick, fires, written, dialogVars, digestVars>>

\* the chats among the selected rows whose handling meets a failure in a run
faulty_chats(users, now_utc, modes) ==
    {users[i].chat_id : i \in {j \in 1..Len(users) :
        \/ ~pytz_knows(users[j].tz)
        \/ /\ modes[users[j].chat_id] # "ok"
           /\ current_time_str(now_utc, users[j].tz)
                \in {users[j].morning_time, users[j].evening_time}}}

\* history: the fires of one run appended, the last two per chat and kind kept
last_two(q) == IF Len(q) > 2 THEN SubSeq(q, Len(q) - 1, Len(q)) ELSE q

RECURSIVE record_fires(_, _, _, _)
record_fires(h, invoked, i, t) ==
    IF i > Len(invoked) THEN h
    ELSE record_fires(
            [h EXCEPT ![invoked[i].chat][invoked[i].kind] =
                last_two(Append(@, [tz |-> invoked[i].tz, time |-> invoked[i].time, at |-> t]))],
            invoked, i + 1, t)

\* The next cron tick: the clock reaches the tick instant and the job runs.
\* A run whose settings query fails calls no sender, so the senders' modes
\* are enumerated for the runs whose query succeeds.
check_and_send_briefings ==
    /\ running
    /\ Len(jobs) > 0
    /\ \E t \in {NextTick(now)}, db_ok \in BOOLEAN, modes \in [Chats -> Modes] :
        LET r == run_check_and_send_briefings(settings, t, db_ok, modes)
            f == faulty_chats(r.users, t, modes)
        IN  /\ t < Horizon
            /\ db_ok \/ modes = [c \in Chats |-> "ok"]
            /\ now' = t
            /\ lastTick' = [at |-> r.at, users |-> r.users,
                            query_failed |-> r.query_failed,
                            invoked |-> r.invoked, attempts |-> r.attempts,
                            escaped |-> r.escaped, faulty |-> f]
            /\ fires' = record_fires(fires, r.invoked, 1, t)
    /\ UNCHANGED <<settings, tokens, running, jobs, opsLeft, written, dialogVars, digestVars>>

\* a tick instant passes while the scheduler is stopped: no job runs
clock_passes ==
    /\ ~(running /\ Len(jobs) > 0)
    /\ \E t \in {NextTick(now)} : t < Horizon /\ now' = t
    /\ UNCHANGED <<settings, tokens, running, jobs, lastTick, fires, opsLeft, written,
                 dialogVars, digestVars>>

----------------------------------------------------------------------------
(* Inbound updates that write the settings table (bot.py).  The settings
   menu (waiting_for) and the onboarding dialogue (onboard_stage) route a
   message to the same writers; an action is the branch that handles it. *)

NameInputs == {"Ann", "Settings"}
MenuButtons == {"Settings"}
ZoneInputs == {"UTC", "Europe/Paris", "Paris"}
OffsetInputs == {"UTC+1", "Back"}
LocationZones == {"Europe/Paris", UnknownZone, NULL}
MorningButtons == {<<8, 0>>, <<9, 0>>, <<10, 0>>}
EveningButtons == {<<18, 0>>, <<21, 0>>, <<23, 0>>}
MorningButtonInputs == {<<9, 0>>, <<7, 0>>}
EveningButtonInputs == {<<21, 0>>, <<20, 0>>}
MorningManualInputs == {<<2, 0>>, <<24, 0>>, <<9, 60>>}
EveningManualInputs == {<<9, 0>>, <<21, 60>>}

SchedulerFrame ==
    UNCHANGED <<now, running, jobs, lastTick, fires, written, dialogVars, digestVars>>

\* waiting_for == 'name' / onboard_stage == 'ask_name'
name_input(c) ==
    /\ UsesOp
    /\ \E text \in NameInputs :
        settings' = IF text \notin MenuButtons
                    THEN set_user_name(settings, c, text) ELSE settings
    /\ UNCHANGED tokens
    /\ SchedulerFrame

\* waiting_for == 'timezone_manual' / onboard_stage == 'timezone_manual'
timezone_manual_input(c) ==
    /\ UsesOp
    /\ \E text \in ZoneInputs :
        IF pytz_knows(text)
        THEN settings' = set_user_timezone(settings, c, text)
        ELSE UNCHANGED settings
    /\ UNCHANGED tokens
    /\ SchedulerFrame

\* waiting_for == 'timezone_utc_list' / onboard_stage == 'timezone_utc_list'
timezone_utc_list_input(c) ==
    /\ UsesOp
    /\ \E text \in OffsetInputs :
        LET tz == parse_utc_offset(text)
        IN  IF tz # NULL
            THEN settings' = set_user_timezone(settings, c, tz)
            ELSE UNCHANGED settings
    /\ UNCHANGED tokens
    /\ SchedulerFrame

\* location_handler: tz_from_location's answer is stored as it is
location_handler(c) ==
    /\ UsesOp
    /\ \E tz \in LocationZones :
        IF tz # NULL
        THEN settings' = set_user_timezone(settings, c, tz)
        ELSE UNCHANGED settings
    /\ UNCHANGED tokens
    /\ SchedulerFrame

\* waiting_for == 'morning_time': one of the three buttons
morning_time_button(c) ==
    /\ UsesOp
    /\ \E text \in MorningButtonInputs :
        IF text \in MorningButtons
        THEN settings' = set_morning_time(settings, c, text)
        ELSE UNCHANGED settings
    /\ UNCHANGED tokens
    /\ SchedulerFrame

\* waiting_for == 'morning_time_manual': "H:M" split, range-checked, %02d:%02d
morning_time_manual_input(c) ==
    /\ UsesOp
    /\ \E hm \in MorningManualInputs :
        IF 0 <= hm[1] /\ hm[1] <= 23 /\ 0 <= hm[2] /\ hm[2] <= 59
        THEN settings' = set_morning_time(settings, c, <<hm[1], hm[2]>>)
        ELSE UNCHANGED settings
    /\ UNCHANGED tokens
    /\ SchedulerFrame

\* waiting_for == 'evening_time': one of the three buttons
evening_time_button(c) ==
    /\ UsesOp
    /\ \E text \in EveningButtonInputs :
        IF text \in EveningButtons
        THEN settings' = set_evening_time(settings, c, text)
        ELSE UNCHANGED settings
    /\ UNCHANGED tokens
    /\ SchedulerFrame

\* waiting_for == 'evening_time_manual'
evening_time_manual_input(c) ==
    /\ UsesOp
    /\ \E hm \in EveningManualInputs :
        IF 0 <= hm[1] /\ hm[1] <= 23 /\ 0 <= hm[2] /\ hm[2] <= 59
        THEN settings' = set_evening_time(settings, c, <<hm[1], hm[2]>>)
        ELSE UNCHANGED settings
    /\ UNCHANGED tokens
    /\ SchedulerFrame

\* the query of a request to /google/callback: code and a state that reads
\* as a chat id, code or state missing, a state that is no integer
CallbackRequests == {"code_and_state", "missing_parameter", "invalid_state"}

\* google_callback: exchange_code_for_tokens gives tokens or None
google_callback(c) ==
    /\ UsesOp
    /\ \E request \in CallbackRequests, exchanged \in BOOLEAN :
        IF request = "code_and_state" /\ exchanged
        THEN /\ tokens' = [tokens EXCEPT ![c] = TRUE]
             /\ settings' = set_onboarded(settings, c, TRUE)
        ELSE UNCHANGED <<tokens, settings>>
    /\ SchedulerFrame

UserOp(c) ==
    \/ name_input(c)
    \/ timezone_manual_input(c)
    \/ timezone_utc_list_input(c)
    \/ location_handler(c)
    \/ morning_time_button(c)
    \/ morning_time_manual_input(c)
    \/ evening_time_button(c)
    \/ evening_time_manual_input(c)
    \/ google_callback(c)

Next ==
    \/ start_scheduler
    \/ stop_scheduler
    \/ check_and_send_briefings
    \/ clock_passes
    \/ \E c \in Chats : name_input(c)
    \/ \E c \in Chats : timezone_manual_input(c)
    \/ \E c \in Chats : timezone_utc_list_input(c)
    \/ \E c \in Chats : location_handler(c)
    \/ \E c \in Chats : morning_time_button(c)
    \/ \E c \in Chats : morning_time_manual_input(c)
    \/ \E c \in Chats : evening_time_button(c)
    \/ \E c \in Chats : evening_time_manual_input(c)
    \/ \E c \in Chats : google_callback(c)

Spec == Init /\ [][Next]_vars

----------------------------------------------------------------------------
(* Calendar writes.  A datetime is a wall clock in minutes with, when it is
   tz-aware, its UTC offset; an ISO 8601 text is a wall clock and the suffix
   that follows it ("" for none). *)

HalfHour == 30

Naive(wall) == [wall |-> wall, aware |-> FALSE, off |-> 0]
Aware(wall, off) == [wall |-> wall, aware |-> TRUE, off |-> off]

SuffixOffset(suffix) ==
    IF suffix = "+02:00" THEN 2 * MinutesPerHour
    ELSE IF suffix = "+01:00" THEN MinutesPerHour
    ELSE 0

OffsetSuffix(off) ==
    IF off = 2 * MinutesPerHour THEN "+02:00"
    ELSE IF off = MinutesPerHour THEN "+01:00"
    ELSE "+00:00"

\* the instant the Calendar API takes from a dateTime text sent with
\* timeZone 'UTC': the text's own offset counts, the zone fills in for none
ApiInstant(text) == text.wall - SuffixOffset(text.suffix)

\* text.replace("Z", "+00:00")
replace_Z(text) == [text EXCEPT !.suffix = IF @ = "Z" THEN "+00:00" ELSE @]

\* datetime.fromisoformat(text.replace("Z", "+00:00"))
fromisoformat(text) ==
    LET t == replace_Z(text)
    IN  IF t.suffix = "" THEN Naive(t.wall) ELSE Aware(t.wall, SuffixOffset(t.suffix))

\* dt.isoformat(): a naive datetime prints no offset
isoformat(dt) ==
    [wall |-> dt.wall, suffix |-> IF dt.aware THEN OffsetSuffix(dt.off) ELSE ""]

\* pytz.utc.localize(dt) of a naive dt
utc_localize(dt) == Aware(dt.wall, 0)

\* dt.astimezone(pytz.utc) of an aware dt
astimezone_utc(dt) == Aware(dt.wall - dt.off, 0)

\* dt.astimezone(pytz.timezone(tz)) of an aware dt
astimezone_tz(dt, tz) ==
    Aware(astimezone(dt.wall - dt.off, tz), utcoffset(tz, dt.wall - dt.off))

\* dt + timedelta(minutes=n): the wall clock moves, tzinfo stays
plus_timedelta(dt, n) == [dt EXCEPT !.wall = @ + n]

\* dt.replace(hour=h, minute=m, second=0, microsecond=0): tzinfo stays
replace_hm(dt, hm) ==
    [dt EXCEPT !.wall = date(@) * MinutesPerDay + hm[1] * MinutesPerHour + hm[2]]

\* datetime.now(pytz.timezone(tz)) at instant t
datetime_now(tz, t) == Aware(astimezone(t, tz), utcoffset(tz, t))

\* get_user_timezone(chat_id) or DEFAULT_TZ
get_user_timezone(tbl, chat_id) ==
    IF tbl[chat_id].present /\ tbl[chat_id].tz # NULL THEN tbl[chat_id].tz ELSE DEFAULT_TZ

\* the body create_event sends: 'dateTime': dt.isoformat(), 'timeZone': 'UTC'
create_event(event_data) ==
    [start |-> isoformat(fromisoformat(event_data.start_time)),
     end |-> isoformat(fromisoformat(event_data.end_time))]

\* the body reschedule_event sends
reschedule_event(new_start_time, new_end_time) ==
    [start |-> isoformat(new_start_time), end |-> isoformat(new_end_time)]

\* parse_with_ai, single task: the times of the model's answer normalised
parse_with_ai(answer, now_utc) ==
    LET s0 == fromisoformat(answer.start_time)
        e0 == fromisoformat(answer.end_time)
        s1 == IF ~s0.aware THEN utc_localize(s0) ELSE astimezone_utc(s0)
        e1 == IF ~e0.aware THEN utc_localize(e0) ELSE astimezone_utc(e0)
        past == s1.wall < now_utc
        s2 == IF past THEN plus_timedelta(s1, MinutesPerDay) ELSE s1
        e2 == IF past THEN plus_timedelta(e1, MinutesPerDay) ELSE e1
        e3 == IF e2.wall < s2.wall THEN plus_timedelta(s2, HalfHour) ELSE e2
    IN  [start_time |-> isoformat(s2), end_time |-> isoformat(e3)]

\* extract_events_from_image, single event: the model's answer as it is
extract_events_from_image(answer) == answer

\* The language model's answer for an event it understands to start at
\* instant T and end at instant E, in one of the ISO 8601 forms
AnswerText(T, form, tz) ==
    IF form = "Z" THEN [wall |-> T, suffix |-> "Z"]
    ELSE IF form = "offset"
         THEN [wall |-> astimezone(T, tz), suffix |-> OffsetSuffix(utcoffset(tz, T))]
    ELSE IF form = "naive_utc" THEN [wall |-> T, suffix |-> ""]
    ELSE [wall |-> astimezone(T, tz), suffix |-> ""]

Answer(T, E, form, tz) ==
    [start_time |-> AnswerText(T, form, tz), end_time |-> AnswerText(E, form, tz)]

\* the system prompt of parse_with_ai asks for UTC ("+00:00" or "Z")
TextForms == {"Z", "offset", "naive_utc"}
\* the prompt of extract_events_from_image asks for "ISO 8601 format"
ImageForms == {"Z", "offset", "naive_utc", "naive_local"}

\* the event the message names lies two days back, two hours back or three
\* hours ahead
AnswerDelays == {0 - 2 * MinutesPerDay, 0 - 2 * MinutesPerHour, 3 * MinutesPerHour}
AnswerLengths == {HalfHour, 0 - HalfHour}

\* pytz: tz.localize(naive) picks standard time where the wall clock is
\* ambiguous; the instant of wall clock `wall` in zone tz
localize_instant(tz, wall) ==
    IF tz = "Europe/Paris"
    THEN (IF ParisOffset(wall - MinutesPerHour) = MinutesPerHour
          THEN wall - MinutesPerHour ELSE wall - 2 * MinutesPerHour)
    ELSE wall

\* day 0 of the model is a Saturday: summer time ends on a Sunday
weekday(dt) == (date(dt.wall) + 5) % 7

weekday_map(name) ==
    IF name = "Monday" THEN 0 ELSE IF name = "Saturday" THEN 5 ELSE 6

get_next_occurrence_of_weekday(start_date, target_weekday) ==
    LET d == weekday_map(target_weekday) - weekday(start_date)
        days_ahead == IF d < 0 THEN d + 7 ELSE d
    IN  plus_timedelta(start_date, days_ahead * MinutesPerDay)

----------------------------------------------------------------------------
(* The handlers that write to the calendar.  written keeps the body of the
   last write and, beside it, the chat and the instant of the handler's run,
   the "HH:MM" the user typed (where the handler read one itself) and the
   instants the event is meant to have. *)

CalFrame ==
    UNCHANGED <<now, settings, tokens, running, jobs, lastTick, fires, dialogVars, digestVars>>

Sent(path, chat, asked, body, true_start, true_end) ==
    [path |-> path, chat |-> chat, asked |-> asked, at |-> now,
     start |-> body.start, end |-> body.end,
     true_start |-> true_start, true_end |-> true_end]

\* handle_text_message / handle_voice_message -> process_task ->
\* create_calendar_event -> create_event
process_task(c) ==
    /\ UsesOp
    /\ \E source \in {"text", "voice"}, d \in AnswerDelays, len \in AnswerLengths,
          form \in TextForms :
        LET tz == get_user_timezone(settings, c)
            T == now + d
            ai_parsed == parse_with_ai(Answer(T, T + len, form, tz), now)
            \* a start in the past is moved to the next day (rule 7 of the prompt)
            T1 == IF T < now THEN T + MinutesPerDay ELSE T
            E1 == IF len < 0 THEN T1 + HalfHour ELSE T1 + len
        IN  IF tokens[c]
            THEN written' = Sent(source, c, NULL, create_event(ai_parsed), T1, E1)
            ELSE UNCHANGED written
    /\ CalFrame

\* handle_photo_message -> extract_events_from_image -> create_calendar_event
handle_photo_message(c) ==
    /\ UsesOp
    /\ \E d \in AnswerDelays, form \in ImageForms :
        LET tz == get_user_timezone(settings, c)
            T == now + d
            event_data == extract_events_from_image(Answer(T, T + HalfHour, form, tz))
        IN  IF settings[c].present /\ settings[c].onboard_done = 1 /\ tokens[c]
            THEN written' = Sent("photo", c, NULL, create_event(event_data), T, T + HalfHour)
            ELSE UNCHANGED written
    /\ CalFrame

PendingDays == {"Saturday", "Sunday", "Monday"}
PendingStarts == {<<12, 15>>}
PendingEnds == {<<13, 45>>, <<11, 0>>, <<12, 15>>}
WeeksAnswers == {1, 2}

\* handle_weeks_response: one of the events the loop creates
handle_weeks_response(c) ==
    /\ UsesOp
    /\ \E num_weeks \in WeeksAnswers, day_of_week \in PendingDays,
          st \in PendingStarts, en \in PendingEnds :
        \E week \in 0..(num_weeks - 1) :
            LET tz == get_user_timezone(settings, c)
                now_local == datetime_now(tz, now)
                start_date == replace_hm(now_local, <<0, 0>>)
                week_start == plus_timedelta(start_date, week * 7 * MinutesPerDay)
                event_date == get_next_occurrence_of_weekday(week_start, day_of_week)
                event_start == replace_hm(event_date, st)
                end0 == replace_hm(event_date, en)
                crosses == en[1] < st[1] \/ (en[1] = st[1] /\ en[2] < st[2])
                event_end == IF end0.wall <= event_start.wall
                             THEN (IF crosses THEN plus_timedelta(end0, MinutesPerDay)
                                   ELSE plus_timedelta(event_start, MinutesPerHour))
                             ELSE end0
                event_data == [start_time |-> isoformat(astimezone_utc(event_start)),
                               end_time |-> isoformat(astimezone_utc(event_end))]
            IN  IF tokens[c]
                THEN written' = Sent("weekly", c, NULL, create_event(event_data),
                                     localize_instant(tz, event_start.wall),
                                     localize_instant(tz, event_end.wall))
                ELSE UNCHANGED written
    /\ CalFrame

RescheduleTimes == {<<4, 0>>, <<23, 30>>}
Durations == {MinutesPerHour}

\* waiting_for == 'reschedule_time': the new time by parse_with_ai, or, when
\* that gives nothing, by the "HH:MM" at the end of the text
reschedule_time_input(c) ==
    /\ UsesOp
    /\ \E by_ai \in BOOLEAN, d \in AnswerDelays, form \in TextForms,
          hm \in RescheduleTimes, duration \in Durations, is_available \in BOOLEAN :
        LET tz == get_user_timezone(settings, c)
            T == now + d
            ai_parsed == parse_with_ai(Answer(T, T + HalfHour, form, tz), now)
            now_local == datetime_now(tz, now)
            candidate == replace_hm(now_local, hm)
            new_start_dt ==
                IF by_ai THEN astimezone_tz(utc_localize(fromisoformat(ai_parsed.start_time)), tz)
                ELSE IF candidate.wall > now_local.wall THEN candidate
                ELSE plus_timedelta(candidate, MinutesPerDay)
            new_end_dt == plus_timedelta(new_start_dt, duration)
            meant == IF by_ai THEN (IF T < now THEN T + MinutesPerDay ELSE T)
                     ELSE localize_instant(tz, new_start_dt.wall)
        IN  IF tokens[c] /\ is_available
            THEN written' = Sent(IF by_ai THEN "reschedule" ELSE "reschedule_hhmm",
                                 c, IF by_ai THEN NULL ELSE hm,
                                 reschedule_event(astimezone_utc(new_start_dt),
                                                  astimezone_utc(new_end_dt)),
                                 meant, meant + duration)
            ELSE UNCHANGED written
    /\ CalFrame

\* callback confirm_move_{event_id}|{timestamp}
confirm_move(c) ==
    /\ UsesOp
    /\ \E d \in AnswerDelays, duration \in Durations :
        LET tz == get_user_timezone(settings, c)
            timestamp == now + d
            suggested_time == astimezone_tz(Aware(timestamp, 0), tz)
            new_end_dt == plus_timedelta(suggested_time, duration)
        IN  IF tokens[c]
            THEN written' = Sent("confirm_move", c, NULL,
                                 reschedule_event(astimezone_utc(suggested_time),
                                                  astimezone_utc(new_end_dt)),
                                 timestamp, timestamp + duration)
            ELSE UNCHANGED written
    /\ CalFrame

\* the wall clock moves on to the next tick instant; the digest job is not
\* part of this specification
time_passes ==
    /\ \E t \in {NextTick(now)} : t < Horizon /\ now' = t
    /\ UNCHANGED <<settings, tokens, running, jobs, lastTick, fires, opsLeft, written,
                 dialogVars, digestVars>>

\* the stored table: chat 1 signed in and chose its zone in an earlier run
InitCal ==
    /\ now = Boot
    /\ \E z \in KnownZones : settings = set_user_timezone(StoredTable, 1, z)
    /\ tokens = [c \in Chats |-> StoredTable[c].onboard_done = 1]
    /\ running = TRUE
    /\ jobs = <<JobId>>
    /\ lastTick = NoTick
    /\ fires = [c \in Chats |-> [k \in {"morning", "evening"} |-> <<>>]]
    /\ opsLeft = MaxOps
    /\ written = NoWrite
    /\ Idle

NextCal ==
    \/ time_passes
    \/ \E c \in Chats : process_task(c)
    \/ \E c \in Chats : handle_photo_message(c)
    \/ \E c \in Chats : handle_weeks_response(c)
    \/ \E c \in Chats : reschedule_time_input(c)
    \/ \E c \in Chats : confirm_move(c)

SpecCal == InitCal /\ [][NextCal]_vars

----------------------------------------------------------------------------
(* The settings and reschedule dialogs of handle_text_message.  A typed time
   "H:M" is the digits before the colon and the digits after it. *)

\* int(text) of a text of decimal digits
RECURSIVE int(_)
int(digits) ==
    IF Len(digits) = 0 THEN 0
    ELSE 10 * int(SubSeq(digits, 1, Len(digits) - 1)) + digits[Len(digits)]

\* text[:2]
first_two(digits) == IF Len(digits) > 2 THEN SubSeq(digits, 1, 2) ELSE digits

\* "14:30", "14:99", "24:00", "14:599"
TimeTexts ==
    {[hour |-> <<1, 4>>, minute |-> <<3, 0>>],
     [hour |-> <<1, 4>>, minute |-> <<9, 9>>],
     [hour |-> <<2, 4>>, minute |-> <<0, 0>>],
     [hour |-> <<1, 4>>, minute |-> <<5, 9, 9>>]}

EnterManually == "Enter Manually"
EventIds == {"ev1"}

\* 0 <= hour <= 23 and 0 <= minute <= 59
in_range(hour, minute) == 0 <= hour /\ hour <= 23 /\ 0 <= minute /\ minute <= 59

DialogFrame ==
    UNCHANGED <<now, tokens, running, jobs, lastTick, fires, opsLeft, parsing, digestVars,
                access, chat_data>>

Handled(c, text, reply, stored) ==
    [chat |-> c, update |-> "text", waiting_for |-> user_data[c].waiting_for,
     text |-> text, reply |-> reply, stored |-> stored]

\* only 'waiting_for' and 'rescheduling_event_id' are popped
clear_waiting_only(d) == [d EXCEPT !.waiting_for = NULL, !.rescheduling_event_id = NULL]

\* the four pops of /start and of the menu commands: 'state',
\* 'pending_schedule', 'waiting_for', 'rescheduling_event_id'
clear_prompts(d) ==
    [d EXCEPT !.state = NULL, !.pending_schedule = NoList,
              !.waiting_for = NULL, !.rescheduling_event_id = NULL]

\* context.user_data.pop('rescheduling_event_id', None) alone
pop_event_id_only(d) == [d EXCEPT !.rescheduling_event_id = NULL]

\* context.user_data.pop('waiting_for', None);
\* context.user_data.pop('rescheduling_event_id', None)
pop_reschedule(d) == [d EXCEPT !.waiting_for = NULL, !.rescheduling_event_id = NULL]

\* handle_callback_query: "set_morning", "set_evening"
set_time_callback(c) ==
    /\ \E callback_data \in {"set_morning", "set_evening"} :
        user_data' = [user_data EXCEPT ![c].waiting_for =
            IF callback_data = "set_morning" THEN "morning_time" ELSE "evening_time"]
    /\ UNCHANGED <<settings, written, handled>>
    /\ DialogFrame

\* handle_callback_query: "resch_{event_id}", "reschedule_manual_{event_id}"
reschedule_callback(c) ==
    /\ tokens[c]
    /\ \E event_id \in EventIds :
        user_data' = [user_data EXCEPT ![c].rescheduling_event_id = event_id,
                                       ![c].waiting_for = "reschedule_time"]
    /\ UNCHANGED <<settings, written, handled>>
    /\ DialogFrame

\* handle_text_message: one of the four menu commands clears the state
menu_command(c) ==
    /\ user_data[c] # NoData
    /\ user_data' = [user_data EXCEPT ![c] = NoData]
    /\ UNCHANGED <<settings, written, handled>>
    /\ DialogFrame

\* waiting_for == 'morning_time' / 'evening_time': "Enter Manually", one of
\* the three buttons, or any other text
time_choice(c) ==
    /\ user_data[c].state = NULL
    /\ user_data[c].waiting_for \in {"morning_time", "evening_time"}
    /\ \E manually \in BOOLEAN, text \in MorningButtonInputs \cup EveningButtonInputs :
        LET morning == user_data[c].waiting_for = "morning_time"
            buttons == IF morning THEN MorningButtons ELSE EveningButtons
        IN  IF manually
            THEN /\ user_data' = [user_data EXCEPT ![c].waiting_for =
                        IF morning THEN "morning_time_manual" ELSE "evening_time_manual"]
                 /\ handled' = Handled(c, EnterManually, "Enter time in HH:MM format", FALSE)
                 /\ UNCHANGED settings
            ELSE IF text \in buttons
            THEN /\ settings' = IF morning THEN set_morning_time(settings, c, text)
                                ELSE set_evening_time(settings, c, text)
                 /\ user_data' = [user_data EXCEPT ![c].waiting_for = NULL]
                 /\ handled' = Handled(c, text, "time updated", TRUE)
            ELSE /\ handled' = Handled(c, text, "Please choose from the options", FALSE)
                 /\ UNCHANGED <<settings, user_data>>
    /\ UNCHANGED written
    /\ DialogFrame

\* waiting_for == 'morning_time_manual' / 'evening_time_manual'
time_manual(c) ==
    /\ user_data[c].state = NULL
    /\ user_data[c].waiting_for \in {"morning_time_manual", "evening_time_manual"}
    /\ \E text \in TimeTexts :
        LET morning == user_data[c].waiting_for = "morning_time_manual"
            hour == int(text.hour)
            minute == int(text.minute)
            time_str == <<hour, minute>>
        IN  IF in_range(hour, minute)
            THEN /\ settings' = IF morning THEN set_morning_time(settings, c, time_str)
                                ELSE set_evening_time(settings, c, time_str)
                 /\ user_data' = [user_data EXCEPT ![c].waiting_for = NULL]
                 /\ handled' = Handled(c, text, "time updated", TRUE)
            ELSE /\ handled' = Handled(c, text, "Invalid time format", FALSE)
                 /\ UNCHANGED <<settings, user_data>>
    /\ UNCHANGED written
    /\ DialogFrame

AiOutcomes == {"nothing", "time"}

\* waiting_for == 'reschedule_time': the whole branch.  ai: what parse_with_ai
\* makes of the text; fetched: events().get gives the event; is_available:
\* check_availability; success: reschedule_event
reschedule_time(c) ==
    /\ user_data[c].state = NULL
    /\ user_data[c].waiting_for = "reschedule_time"
    /\ \E text \in TimeTexts, ai \in AiOutcomes, fetched \in BOOLEAN,
          is_available \in BOOLEAN, success \in BOOLEAN :
        LET tz == get_user_timezone(settings, c)
            hour == int(text.hour)
            minute == int(first_two(text.minute))
            raised == ai = "nothing" /\ ~in_range(hour, minute)
            now_local == datetime_now(tz, now)
            candidate == replace_hm(now_local, <<hour, minute>>)
            T == now + 3 * MinutesPerHour
            ai_parsed == parse_with_ai(Answer(T, T + HalfHour, "Z", tz), now)
            new_start_dt ==
                IF ai = "time"
                THEN astimezone_tz(utc_localize(fromisoformat(ai_parsed.start_time)), tz)
                ELSE IF candidate.wall > now_local.wall THEN candidate
                ELSE plus_timedelta(candidate, MinutesPerDay)
            new_end_dt == plus_timedelta(new_start_dt, MinutesPerHour)
            meant == IF ai = "time" THEN T ELSE localize_instant(tz, new_start_dt.wall)
            cleared == [user_data EXCEPT ![c] = pop_reschedule(@)]
        IN  IF user_data[c].rescheduling_event_id = NULL
            THEN /\ handled' = Handled(c, text, "Error: Event ID not found", FALSE)
                 /\ user_data' = cleared
                 /\ UNCHANGED written
            ELSE IF ~tokens[c]
            THEN /\ handled' = Handled(c, text, "Authorization error", FALSE)
                 /\ user_data' = cleared
                 /\ UNCHANGED written
            ELSE IF raised
            THEN /\ handled' = Handled(c, text, "Couldn't understand that time", FALSE)
                 /\ UNCHANGED <<user_data, written>>
            ELSE IF ~fetched
            THEN /\ handled' = Handled(c, text, "An error occurred", FALSE)
                 /\ user_data' = cleared
                 /\ UNCHANGED written
            ELSE IF ~is_available
            THEN /\ handled' = Handled(c, text, "That time is busy", FALSE)
                 /\ UNCHANGED <<user_data, written>>
            ELSE IF success
            THEN /\ written' = Sent(IF ai = "time" THEN "reschedule" ELSE "reschedule_hhmm",
                                    c, IF ai = "time" THEN NULL ELSE <<hour, minute>>,
                                    reschedule_event(astimezone_utc(new_start_dt),
                                                     astimezone_utc(new_end_dt)),
                                    meant, meant + MinutesPerHour)
                 /\ handled' = Handled(c, text, "Task moved", TRUE)
                 /\ user_data' = cleared
            ELSE /\ handled' = Handled(c, text, "Failed to reschedule", FALSE)
                 /\ user_data' = cleared
                 /\ UNCHANGED written
    /\ UNCHANGED settings
    /\ DialogFrame

InitDialog ==
    /\ now = Boot
    /\ settings = StoredTable
    /\ tokens = [c \in Chats |-> StoredTable[c].onboard_done = 1]
    /\ running = TRUE
    /\ jobs = <<JobId>>
    /\ lastTick = NoTick
    /\ fires = [c \in Chats |-> [k \in {"morning", "evening"} |-> <<>>]]
    /\ opsLeft = MaxOps
    /\ written = NoWrite
    /\ Idle

NextDialog ==
    \/ \E c \in Chats : set_time_callback(c)
    \/ \E c \in Chats : reschedule_callback(c)
    \/ \E c \in Chats : menu_command(c)
    \/ \E c \in Chats : time_choice(c)
    \/ \E c \in Chats : time_manual(c)
    \/ \E c \in Chats : reschedule_time(c)

SpecDialog == InitDialog /\ [][NextDialog]_vars

----------------------------------------------------------------------------
(* What the digests say.  An event of the calendar is timed (start and end
   are instants) or all-day (start and end are day numbers, the end
   exclusive); its summary is a title behind the marks put before it, the
   latest first. *)

\* the bound on the marks one summary collects
MaxMarks == 1

DONE == "done"            \* the prefix of mark_event_done
CANCELLED == "cancelled"  \* the prefix of cancel_event

Timed(id, start, end) ==
    [id |-> id, all_day |-> FALSE, start |-> start, end |-> end, marks |-> <<>>]
AllDay(id, day) ==
    [id |-> id, all_day |-> TRUE, start |-> day, end |-> day + 1, marks |-> <<>>]

\* summary.startswith(prefix)
startswith(marks, prefix) == Len(marks) > 0 /\ marks[1] = prefix

\* mark_event_done: the prefix is added unless the summary starts with it
mark_event_done(cal, event_id) ==
    {IF e.id = event_id /\ ~startswith(e.marks, DONE)
     THEN [e EXCEPT !.marks = <<DONE>> \o @] ELSE e : e \in cal}

\* cancel_event: the event stays in the calendar, its summary prefixed
cancel_event(cal, event_id) ==
    {IF e.id = event_id /\ ~startswith(e.marks, CANCELLED)
     THEN [e EXCEPT !.marks = <<CANCELLED>> \o @] ELSE e : e \in cal}

\* The instants the Calendar API orders and filters an event by; an all-day
\* event runs between the midnights of the calendar's zone, taken to be the
\* chat's zone.
EventStart(e, tz) ==
    IF e.all_day THEN localize_instant(tz, e.start * MinutesPerDay) ELSE e.start
EventEnd(e, tz) ==
    IF e.all_day THEN localize_instant(tz, e.end * MinutesPerDay) ELSE e.end

\* orderBy='startTime': ascending by start (the events of the model have
\* different starts)
RECURSIVE order_by_startTime(_, _)
order_by_startTime(evs, tz) ==
    IF evs = {} THEN <<>>
    ELSE LET first == CHOOSE e \in evs :
                        \A o \in evs : EventStart(e, tz) <= EventStart(o, tz)
         IN  <<first>> \o order_by_startTime(evs \ {first}, tz)

\* events().list(timeMin, timeMax, singleEvents=True, orderBy='startTime'):
\* the events that end after timeMin and start before timeMax.  timeMax
\* carries 59 seconds and the instants of the model are whole minutes, so
\* "starts before timeMax" reads <=.
events_list(cal, tz, timeMin, timeMax) ==
    order_by_startTime({e \in cal : EventEnd(e, tz) > timeMin
                                      /\ EventStart(e, tz) <= timeMax}, tz)

\* get_today_events: start_of_day, end_of_day and their UTC instants
today_window(tz, t) ==
    LET now_local == datetime_now(tz, t)
        start_of_day == replace_hm(now_local, <<0, 0>>)
        end_of_day == replace_hm(start_of_day, <<23, 59>>)
    IN  [timeMin |-> astimezone_utc(start_of_day).wall,
         timeMax |-> astimezone_utc(end_of_day).wall]

\* get_today_events: the list of the API, [] when the call raises
get_today_events(cal, tz, t, api_ok) ==
    IF api_ok
    THEN events_list(cal, tz, today_window(tz, t).timeMin, today_window(tz, t).timeMax)
    ELSE <<>>

\* time_str of a digest entry: "%H:%M" in the chat's zone for a dateTime
\* start, nothing for a date
time_str(e, tz) == IF e.all_day THEN NULL ELSE strftime_HM(astimezone(e.start, tz))

\* one event as a digest shows it: its time, the marks left before its
\* title, and the marks it was read with
Entry(e, tz, marks) == [id |-> e.id, all_day |-> e.all_day, start |-> e.start,
                        time |-> time_str(e, tz), marks |-> marks, read |-> e.marks]

RECURSIVE tasks_list(_, _)
tasks_list(events, tz) ==
    IF events = <<>> THEN <<>>
    ELSE LET e == Head(events)
             shown == IF startswith(e.marks, DONE) THEN Tail(e.marks) ELSE e.marks
         IN  <<Entry(e, tz, shown)>> \o tasks_list(Tail(events), tz)

NoTasksMorning == "No tasks for today yet. Enjoy your freedom!"
NoTasksEvening == "No uncompleted tasks! Great job!"
TasksLeftBehind == "Tasks left behind:"
Intros == {"Good morning! Have a productive day and stay hydrated!", ""}

\* send_morning_briefing without its test of an empty list
briefing_unchecked(events, tz, intro) ==
    [head |-> intro, tasks |-> tasks_list(events, tz), keyboard |-> <<>>, foot |-> ""]

\* send_morning_briefing: the text sent for the events of the day
briefing(events, tz, intro) ==
    IF events = <<>>
    THEN [head |-> NoTasksMorning, tasks |-> <<>>, keyboard |-> <<>>, foot |-> ""]
    ELSE [head |-> intro, tasks |-> tasks_list(events, tz), keyboard |-> <<>>, foot |-> ""]

RECURSIVE completed_events(_, _)
completed_events(events, tz) ==
    IF events = <<>> THEN <<>>
    ELSE (IF startswith(Head(events).marks, DONE)
          THEN <<Entry(Head(events), tz, Tail(Head(events).marks))>> ELSE <<>>)
         \o completed_events(Tail(events), tz)

RECURSIVE incomplete_events(_, _)
incomplete_events(events, tz) ==
    IF events = <<>> THEN <<>>
    ELSE (IF ~startswith(Head(events).marks, DONE)
          THEN <<Entry(Head(events), tz, Head(events).marks)>> ELSE <<>>)
         \o incomplete_events(Tail(events), tz)

\* send_evening_recap: message_text and the inline keyboard
message_text(events, tz) ==
    [head |-> "Hey, hope it was a productive day!",
     tasks |-> completed_events(events, tz),
     keyboard |-> incomplete_events(events, tz),
     foot |-> IF incomplete_events(events, tz) # <<>> THEN TasksLeftBehind
              ELSE NoTasksEvening]

\* The digest message a sender hands to bot.send_message, with the query it
\* was built from.
Digest(kind, c, tz, events, text) ==
    [kind |-> kind, chat |-> c, at |-> now, tz |-> tz,
     timeMin |-> today_window(tz, now).timeMin,
     timeMax |-> today_window(tz, now).timeMax,
     queried |-> Len(events), text |-> text]

DigestFrame ==
    UNCHANGED <<now, settings, tokens, running, jobs, lastTick, fires, opsLeft,
                written, dialogVars>>

\* WHERE onboard_done = 1 AND tz IS NOT NULL
selected(row) == row.present /\ row.onboard_done = 1 /\ row.tz # NULL

\* check_and_send_briefings -> send_morning_briefing(bot, chat_id, tz), the
\* chat's Google tokens stored
morning_briefing(c) ==
    /\ selected(settings[c])
    /\ pytz_knows(settings[c].tz)
    /\ current_time_str(now, settings[c].tz) = settings[c].morning_time
    /\ tokens[c]
    /\ \E api_ok \in BOOLEAN, intro \in Intros :
        LET tz == settings[c].tz
            events == get_today_events(calendar, tz, now, api_ok)
        IN  digest' = Digest("morning", c, tz, events, briefing(events, tz, intro))
    /\ UNCHANGED calendar
    /\ DigestFrame

\* check_and_send_briefings -> send_evening_recap(bot, chat_id, tz)
evening_recap(c) ==
    /\ selected(settings[c])
    /\ pytz_knows(settings[c].tz)
    /\ current_time_str(now, settings[c].tz) = settings[c].evening_time
    /\ tokens[c]
    /\ \E api_ok \in BOOLEAN :
        LET tz == settings[c].tz
            events == get_today_events(calendar, tz, now, api_ok)
        IN  digest' = Digest("evening", c, tz, events, message_text(events, tz))
    /\ UNCHANGED calendar
    /\ DigestFrame

\* handle_callback_query "done_{event_id}" -> mark_event_done
done_callback(c) ==
    /\ tokens[c]
    /\ \E e \in calendar :
        /\ Len(e.marks) < MaxMarks
        /\ calendar' = mark_event_done(calendar, e.id)
    /\ UNCHANGED digest
    /\ DigestFrame

\* handle_callback_query "del_{event_id}" / "cancel_{event_id}" -> cancel_event
delete_callback(c) ==
    /\ tokens[c]
    /\ \E e \in calendar :
        /\ Len(e.marks) < MaxMarks
        /\ calendar' = cancel_event(calendar, e.id)
    /\ UNCHANGED digest
    /\ DigestFrame

\* The calendars the model starts from.  party runs from 23:30 on Saturday
\* to 00:30 on Sunday (Europe/Paris, summer time), early from 00:30 to 00:45
\* on Sunday, standup from 08:30 to 09:00 on Sunday (standard time), lunch
\* on Saturday from 12:00 UTC; holiday is Sunday, all day.
party == Timed("party", MinutesPerDay - 150, MinutesPerDay - 90)
early == Timed("early", MinutesPerDay - 90, MinutesPerDay - 75)
standup == Timed("standup", MinutesPerDay + 450, MinutesPerDay + 480)
lunch == Timed("lunch", 12 * MinutesPerHour, 13 * MinutesPerHour)
holiday == AllDay("holiday", 1)

Calendars == {{}, {lunch}, {lunch, holiday, standup}, {party, holiday, early}}

InitDigest ==
    /\ now = Boot
    /\ \E z \in KnownZones, tm \in OfferedTimes :
        settings = set_morning_time(set_user_timezone(StoredTable, 1, z), 1, tm)
    /\ tokens = [c \in Chats |-> StoredTable[c].onboard_done = 1]
    /\ running = TRUE
    /\ jobs = <<JobId>>
    /\ lastTick = NoTick
    /\ fires = [c \in Chats |-> [k \in {"morning", "evening"} |-> <<>>]]
    /\ opsLeft = MaxOps
    /\ written = NoWrite
    /\ user_data = [c \in Chats |-> NoData]
    /\ handled = NoUpdate
    /\ parsing = NoParse
    /\ calendar \in Calendars
    /\ digest = NoDigest
    /\ access = NoAccess
    /\ chat_data = [c \in Chats |-> NoChatData]

NextDigest ==
    \/ time_passes
    \/ \E c \in Chats : morning_briefing(c)
    \/ \E c \in Chats : evening_recap(c)
    \/ \E c \in Chats : done_callback(c)
    \/ \E c \in Chats : delete_callback(c)

SpecDigest == InitDigest /\ [][NextDigest]_vars

----------------------------------------------------------------------------
(* A task message in two steps: process_task runs up to the await of the
   language model's answer inside parse_with_ai, and goes on when the answer
   is there.  The Application is built with its defaults, so it hands the
   next Telegram update to a handler only when the handler of the last one
   has returned; the scheduler's job and the aiohttp handler of
   /google/callback are tasks of the same event loop and run whenever the
   running handler awaits. *)

ParseFrame ==
    UNCHANGED <<now, settings, tokens, running, jobs, lastTick, fires,
                user_data, handled, digestVars, access, chat_data>>

\* handle_text_message -> process_task, to
\* `await client.chat.completions.create(...)`
parse_begins(c) ==
    /\ UsesOp
    /\ parsing = NoParse
    /\ settings[c].present /\ settings[c].onboard_done = 1
    /\ parsing' = [chat |-> c, tz |-> get_user_timezone(settings, c), began |-> now]
    /\ UNCHANGED written
    /\ ParseFrame

\* the answer arrives: parse_with_ai normalises it against the clock as it
\* is now, create_calendar_event writes with the tokens as they are now
parse_answers(c) ==
    /\ parsing # NoParse
    /\ parsing.chat = c
    /\ \E d \in AnswerDelays, len \in AnswerLengths, form \in TextForms :
        LET T == now + d
            ai_parsed == parse_with_ai(Answer(T, T + len, form, parsing.tz), now)
            T1 == IF T < now THEN T + MinutesPerDay ELSE T
            E1 == IF len < 0 THEN T1 + HalfHour ELSE T1 + len
        IN  IF tokens[c]
            THEN written' = Sent("text", c, NULL, create_event(ai_parsed), T1, E1)
            ELSE UNCHANGED written
    /\ parsing' = NoParse
    /\ UNCHANGED opsLeft
    /\ ParseFrame

\* a Telegram update that changes the settings, handled when no handler runs
next_update(c) ==
    /\ parsing = NoParse
    /\ timezone_manual_input(c)

NextParse ==
    \/ \E c \in Chats : parse_begins(c)
    \/ \E c \in Chats : parse_answers(c)
    \/ \E c \in Chats : next_update(c)
    \/ \E c \in Chats : google_callback(c)
    \/ check_and_send_briefings

SpecParse == Init /\ [][NextParse]_vars

----------------------------------------------------------------------------
(* The scheduler left to itself: both chats signed in and chose their zones
   in an earlier run of the process, the scheduler was started by post_init
   and nothing stops it.  The cron trigger of the job fires every minute for
   as long as the scheduler runs. *)

InitLive ==
    /\ now = Boot
    /\ \E z1 \in KnownZones, z2 \in KnownZones :
        settings = set_user_timezone(
                       set_user_timezone(
                           set_onboarded(StoredTable, 2, TRUE), 1, z1), 2, z2)
    /\ tokens = [c \in Chats |-> TRUE]
    /\ running = TRUE
    /\ jobs = <<JobId>>
    /\ lastTick = NoTick
    /\ fires = [c \in Chats |-> [k \in {"morning", "evening"} |-> <<>>]]
    /\ opsLeft = MaxOps
    /\ written = NoWrite
    /\ Idle

NextLive == check_and_send_briefings

SpecLive == InitLive /\ [][NextLive]_vars /\ WF_vars(check_and_send_briefings)

----------------------------------------------------------------------------
(* The handlers that change the calendar, from the read of the chat's stored
   tokens to the call of calendar_service.  access keeps, of the last such
   run, what the token table held, how the load of the credentials went and
   which function of calendar_service the handler called, if any. *)

\* get_credentials_from_stored: the token is not expired; it is expired and
\* the refresh succeeds (the new tokens are saved); the refresh fails for a
\* reason other than invalid_grant (the credentials are returned as they
\* are); the refresh fails with invalid_grant (the row is deleted and
\* ValueError("invalid_grant:...") raised); a field of the row is missing or
\* another exception is caught (None); another ValueError is raised
CredentialLoads ==
    {"valid", "refreshed", "refresh_failed", "invalid_grant", "incomplete", "value_error"}

get_credentials_from_stored(load) ==
    [creds |-> load \in {"valid", "refreshed", "refresh_failed"},
     raised |-> IF load = "invalid_grant" THEN "invalid_grant:"
                ELSE IF load = "value_error" THEN "ValueError" ELSE NULL,
     row_kept |-> load # "invalid_grant"]

\* _get_credentials_or_notify: None after the notice of an invalid grant,
\* any other ValueError is raised again
get_credentials_or_notify(load) ==
    LET r == get_credentials_from_stored(load)
    IN  [credentials |-> r.raised = NULL /\ r.creds,
         raised |-> r.raised = "ValueError",
         row_kept |-> r.row_kept]

\* the handlers and the functions of calendar_service each of them calls
Mutations ==
    [handle_callback_query |-> {"mark_event_done", "reschedule_event", "cancel_event"},
     reschedule_time |-> {"reschedule_event"},
     handle_weeks_response |-> {"create_event"},
     create_calendar_event |-> {"create_event"}]

\* the handler goes on without looking at what the load returned
load_then_call_unguarded(stored_tokens, load, call) ==
    [stored_tokens |-> stored_tokens, load |-> load, credentials |-> TRUE, call |-> call]

\* stored_tokens = get_google_tokens(chat_id); if not stored_tokens: return;
\* credentials = await _get_credentials_or_notify(...); if not credentials:
\* return; ...; the call, where the handler gets as far as it
load_then_call(stored_tokens, load, call) ==
    IF ~stored_tokens
    THEN [stored_tokens |-> FALSE, load |-> NULL, credentials |-> FALSE, call |-> NULL]
    ELSE LET got == get_credentials_or_notify(load)
         IN  [stored_tokens |-> TRUE, load |-> load, credentials |-> got.credentials,
              call |-> IF got.credentials /\ ~got.raised THEN call ELSE NULL]

CredsFrame ==
    UNCHANGED <<now, settings, running, jobs, lastTick, fires, opsLeft, written,
                user_data, handled, parsing, digestVars, chat_data>>

\* one run of a handler for chat c
calendar_handler(c, handler) ==
    /\ \E load \in CredentialLoads, call \in Mutations[handler] \cup {NULL} :
        LET run == load_then_call(tokens[c], load, call)
        IN  /\ access' = [chat |-> c, handler |-> handler, stored_tokens |-> run.stored_tokens,
                          load |-> run.load, credentials |-> run.credentials,
                          call |-> run.call]
            /\ tokens' = [tokens EXCEPT ![c] =
                            @ /\ get_credentials_from_stored(load).row_kept]
    /\ CredsFrame

\* handle_callback_query: "done_", "confirm_move_", "del_", "cancel_",
\* "reschedule_leftovers"
handle_callback_query(c) == calendar_handler(c, "handle_callback_query")

\* handle_text_message, waiting_for == 'reschedule_time'
reschedule_time_credentials(c) == calendar_handler(c, "reschedule_time")

\* handle_weeks_response
weeks_response_credentials(c) == calendar_handler(c, "handle_weeks_response")

\* create_calendar_event
create_calendar_event(c) == calendar_handler(c, "create_calendar_event")

NextCreds ==
    \/ \E c \in Chats : handle_callback_query(c)
    \/ \E c \in Chats : reschedule_time_credentials(c)
    \/ \E c \in Chats : weeks_response_credentials(c)
    \/ \E c \in Chats : create_calendar_event(c)
    \/ \E c \in Chats : google_callback(c)

SpecCreds == Init /\ [][NextCreds]_vars

----------------------------------------------------------------------------
(* Onboarding: /start, and the text and location updates of a chat whose
   chat_data holds an onboard_stage.  A text is its string and, where it has
   the form digits:digits, the two parts of text.split(':'). *)

Typed(str) == [s |-> str, parts |-> <<>>]
TypedTime(str, t) == [s |-> str, parts |-> <<t.hour, t.minute>>]

MenuCommands == {"Settings", "Tasks for Today", "Tasks for a Date", "Open Google Calendar"}

OnboardTexts ==
    {Typed("Ann"), Typed("Settings"), Typed("Tasks for a Date"),
     Typed("Enter City Manually"), Typed("Choose from UTC List"), Typed("Back"),
     Typed(EnterManually), Typed("Europe/Paris"), Typed("Paris"), Typed("UTC+1"),
     TypedTime("14:30", [hour |-> <<1, 4>>, minute |-> <<3, 0>>]),
     TypedTime("24:00", [hour |-> <<2, 4>>, minute |-> <<0, 0>>]),
     TypedTime("14:599", [hour |-> <<1, 4>>, minute |-> <<5, 9, 9>>])}

\* SELECT onboard_done FROM settings WHERE chat_id=?
is_onboarded(tbl, chat_id) == tbl[chat_id].present /\ tbl[chat_id].onboard_done = 1

\* the time is taken whatever the numbers are
onboard_time_unchecked(parts) ==
    IF Len(parts) = 2
    THEN [ok |-> TRUE, time_str |-> <<int(parts[1]), int(parts[2])>>]
    ELSE [ok |-> FALSE, time_str |-> <<>>]

\* if ':' in text: parts = text.split(':'); if len(parts) == 2: hour, minute =
\* int(...), int(...); if 0 <= hour <= 23 and 0 <= minute <= 59: ...;
\* raise ValueError otherwise
onboard_time(parts) ==
    IF Len(parts) = 2 /\ in_range(int(parts[1]), int(parts[2]))
    THEN [ok |-> TRUE, time_str |-> <<int(parts[1]), int(parts[2])>>]
    ELSE [ok |-> FALSE, time_str |-> <<>>]

\* the branches of handle_text_message on chat_data['onboard_stage']: the
\* table and the stage after the text (ask_timezone, ask_morning_time,
\* ask_evening_time set the next stage, finish_onboarding pops the key)
onboarding(tbl, c, stage, text) ==
    LET stay == [settings |-> tbl, stage |-> stage]
        to(st) == [settings |-> tbl, stage |-> st]
        time == onboard_time(text.parts)
    IN  CASE stage = "ask_name" ->
                IF text.s # ""
                THEN [settings |-> set_user_name(tbl, c, text.s), stage |-> "timezone"]
                ELSE stay
          [] stage = "timezone" ->
                IF text.s = "Enter City Manually" THEN to("timezone_manual")
                ELSE IF text.s = "Choose from UTC List" THEN to("timezone_utc_list")
                ELSE stay
          [] stage = "timezone_manual" ->
                IF pytz_knows(text.s)
                THEN [settings |-> set_user_timezone(tbl, c, text.s),
                      stage |-> "ask_morning_time"]
                ELSE stay
          [] stage = "timezone_utc_list" ->
                IF text.s = "Back" THEN to("timezone")
                ELSE IF parse_utc_offset(text.s) # NULL
                THEN [settings |-> set_user_timezone(tbl, c, parse_utc_offset(text.s)),
                      stage |-> "ask_morning_time"]
                ELSE stay
          [] stage = "ask_morning_time" ->
                IF text.s = EnterManually THEN to("ask_morning_time_manual")
                ELSE IF time.ok
                THEN [settings |-> set_morning_time(tbl, c, time.time_str),
                      stage |-> "ask_evening_time"]
                ELSE stay
          [] stage = "ask_morning_time_manual" ->
                IF time.ok
                THEN [settings |-> set_morning_time(tbl, c, time.time_str),
                      stage |-> "ask_evening_time"]
                ELSE stay
          [] stage = "ask_evening_time" ->
                IF text.s = EnterManually THEN to("ask_evening_time_manual")
                ELSE IF time.ok
                THEN [settings |-> set_evening_time(tbl, c, time.time_str), stage |-> NULL]
                ELSE stay
          [] stage = "ask_evening_time_manual" ->
                IF time.ok
                THEN [settings |-> set_evening_time(tbl, c, time.time_str), stage |-> NULL]
                ELSE stay

\* the update just handled: its kind, the stage it met, its text and, for
\* a location, the answer of tz_from_location
Update(c, kind, text, tz) ==
    [chat |-> c, update |-> kind, stage |-> chat_data[c].onboard_stage,
     text |-> text, tz |-> tz]

OnboardFrame ==
    UNCHANGED <<now, tokens, running, jobs, lastTick, fires, opsLeft, written, parsing,
                digestVars, access>>

\* /start: the four keys of user_data are popped; a chat that is onboarded
\* gets the menu, any other the first question
start(c) ==
    /\ user_data' = [user_data EXCEPT ![c] = clear_prompts(@)]
    /\ chat_data' = IF is_onboarded(settings, c) THEN chat_data
                    ELSE [chat_data EXCEPT ![c].onboard_stage = "ask_name"]
    /\ handled' = Update(c, "start", Typed("/start"), NULL)
    /\ UNCHANGED settings
    /\ OnboardFrame

\* handle_text_message for a chat in onboarding: a menu command, the answer
\* to "Enter a date to view tasks" (understood or not), or the stage's branch
onboarding_text(c) ==
    /\ chat_data[c].onboard_stage # NULL
    /\ \E text \in OnboardTexts, understood \in BOOLEAN :
        /\ handled' = Update(c, IF text.s \in MenuCommands THEN "menu" ELSE "text", text, NULL)
        /\ IF text.s \in MenuCommands
           THEN /\ user_data' = [user_data EXCEPT ![c] =
                        IF text.s = "Tasks for a Date"
                        THEN [NoData EXCEPT !.waiting_for = "tasks_date"] ELSE NoData]
                /\ UNCHANGED <<settings, chat_data>>
           ELSE IF user_data[c].waiting_for = "tasks_date"
           THEN /\ user_data' = [user_data EXCEPT ![c].waiting_for =
                        IF understood THEN NULL ELSE @]
                /\ UNCHANGED <<settings, chat_data>>
           ELSE LET after == onboarding(settings, c, chat_data[c].onboard_stage, text)
                IN  /\ settings' = after.settings
                    /\ chat_data' = [chat_data EXCEPT ![c].onboard_stage = after.stage]
                    /\ UNCHANGED user_data
    /\ OnboardFrame

\* location_handler at onboard_stage == 'timezone'
onboarding_location(c) ==
    /\ chat_data[c].onboard_stage = "timezone"
    /\ \E tz \in LocationZones :
        /\ handled' = Update(c, "location", Typed(""), tz)
        /\ IF tz # NULL
           THEN /\ settings' = set_user_timezone(settings, c, tz)
                /\ chat_data' = [chat_data EXCEPT ![c].onboard_stage = "ask_morning_time"]
           ELSE UNCHANGED <<settings, chat_data>>
    /\ UNCHANGED user_data
    /\ OnboardFrame

NextOnboard ==
    \/ \E c \in Chats : start(c)
    \/ \E c \in Chats : onboarding_text(c)
    \/ \E c \in Chats : onboarding_location(c)

SpecOnboard == Init /\ [][NextOnboard]_vars

----------------------------------------------------------------------------
(* The prompts a chat can be left in: every handler that writes the keys
   'state', 'pending_schedule', 'waiting_for' and 'rescheduling_event_id' of
   context.user_data, in the order in which handle_text_message and
   handle_callback_query reach their branches. *)

PromptFrame ==
    UNCHANGED <<now, running, jobs, lastTick, fires, opsLeft, written, parsing, digestVars>>

\* handle_text_message: one of the four menu commands
menu_button(c) ==
    /\ \E text \in MenuCommands :
        /\ handled' = Update(c, "menu", Typed(text), NULL)
        /\ user_data' = [user_data EXCEPT ![c] =
                IF text = "Tasks for a Date"
                THEN [clear_prompts(@) EXCEPT !.waiting_for = "tasks_date"]
                ELSE clear_prompts(@)]
    /\ UNCHANGED <<settings, tokens, access, chat_data>>
    /\ PromptFrame

\* handle_callback_query: "set_name", "set_tz", "set_morning", "set_evening"
\* (no Google authorisation is asked for)
SettingsCallbacks ==
    [set_name |-> "name", set_tz |-> "timezone",
     set_morning |-> "morning_time", set_evening |-> "evening_time"]

settings_callback(c) ==
    /\ \E callback_data \in DOMAIN SettingsCallbacks :
        /\ handled' = Update(c, "callback", Typed(callback_data), NULL)
        /\ user_data' = [user_data EXCEPT ![c].waiting_for = SettingsCallbacks[callback_data]]
    /\ UNCHANGED <<settings, tokens, access, chat_data>>
    /\ PromptFrame

\* the outcomes of the load the prompts are run with: credentials, None,
\* the row deleted after an invalid grant, a ValueError raised
PromptLoads == {"valid", "incomplete", "invalid_grant", "value_error"}

\* the token table after a handler that asked for the credentials
Reached(c, load) ==
    tokens' = [tokens EXCEPT ![c] = @ /\ get_credentials_from_stored(load).row_kept]

\* a callback query or an answer to the weeks prompt just handled, with the
\* function of calendar_service it called
Answered(c, kind, text, call) ==
    [chat |-> c, update |-> kind, text |-> text, call |-> call]

\* handle_callback_query: "resch_{event_id}", "reschedule_manual_{event_id}"
reschedule_prompt_callback(c) ==
    /\ \E event_id \in EventIds, load \in PromptLoads :
        LET run == load_then_call(tokens[c], load, NULL)
        IN  /\ Reached(c, load)
            /\ handled' = Answered(c, "callback", Typed("resch"), run.call)
            /\ user_data' = IF run.credentials
                            THEN [user_data EXCEPT ![c].rescheduling_event_id = event_id,
                                                   ![c].waiting_for = "reschedule_time"]
                            ELSE user_data
    /\ UNCHANGED <<settings, access, chat_data>>
    /\ PromptFrame

\* handle_callback_query: "cancel_reschedule_{event_id}"
cancel_reschedule_callback(c) ==
    /\ \E load \in PromptLoads :
        LET run == load_then_call(tokens[c], load, NULL)
        IN  /\ Reached(c, load)
            /\ handled' = Answered(c, "callback", Typed("cancel_reschedule"), run.call)
            /\ user_data' = IF run.credentials
                            THEN [user_data EXCEPT ![c] = pop_reschedule(@)]
                            ELSE user_data
    /\ UNCHANGED <<settings, access, chat_data>>
    /\ PromptFrame

\* waiting_for == 'tasks_date': show_tasks_for_date pops the key when it
\* has understood the date
tasks_date_text(c) ==
    /\ user_data[c].state = NULL
    /\ user_data[c].waiting_for = "tasks_date"
    /\ \E text \in {"tomorrow", "Ann"} :
        /\ handled' = Update(c, "text", Typed(text), NULL)
        /\ user_data' = [user_data EXCEPT ![c].waiting_for =
                            IF text = "tomorrow" THEN NULL ELSE @]
    /\ UNCHANGED <<settings, tokens, access, chat_data>>
    /\ PromptFrame

\* the texts each branch is run with
SettingsTexts ==
    [name |-> {Typed("Ann")},
     timezone |-> {Typed("Enter City Manually"), Typed("Choose from UTC List"),
                   Typed("Europe/Paris")},
     timezone_manual |-> {Typed("Europe/Paris"), Typed("Paris")},
     timezone_utc_list |-> {Typed("UTC+1"), Typed("Paris")}]

\* waiting_for == 'name', 'timezone', 'timezone_manual', 'timezone_utc_list'
settings_text(c) ==
    /\ user_data[c].state = NULL
    /\ user_data[c].waiting_for \in
            {"name", "timezone", "timezone_manual", "timezone_utc_list"}
    /\ \E text \in SettingsTexts[user_data[c].waiting_for] :
        LET waiting_for == user_data[c].waiting_for
            stay == user_data
            to(w) == [user_data EXCEPT ![c].waiting_for = w]
        IN  /\ handled' = Update(c, "text", text, NULL)
            /\ CASE waiting_for = "name" ->
                        /\ settings' = set_user_name(settings, c, text.s)
                        /\ user_data' = to(NULL)
                 [] waiting_for = "timezone" ->
                        /\ user_data' =
                              IF text.s = "Enter City Manually" THEN to("timezone_manual")
                              ELSE IF text.s = "Choose from UTC List"
                              THEN to("timezone_utc_list")
                              ELSE stay
                        /\ UNCHANGED settings
                 [] waiting_for = "timezone_manual" ->
                        IF pytz_knows(text.s)
                        THEN /\ settings' = set_user_timezone(settings, c, text.s)
                             /\ user_data' = to(NULL)
                        ELSE UNCHANGED <<settings, user_data>>
                 [] waiting_for = "timezone_utc_list" ->
                        IF parse_utc_offset(text.s) # NULL
                        THEN /\ settings' = set_user_timezone(settings, c,
                                                              parse_utc_offset(text.s))
                             /\ user_data' = to(NULL)
                        ELSE UNCHANGED <<settings, user_data>>
    /\ UNCHANGED <<tokens, access, chat_data>>
    /\ PromptFrame

\* location_handler at waiting_for == 'timezone' (no onboarding stage)
settings_location(c) ==
    /\ user_data[c].waiting_for = "timezone"
    /\ chat_data[c].onboard_stage # "timezone"
    /\ \E tz \in LocationZones :
        /\ handled' = Update(c, "location", Typed(""), tz)
        /\ IF tz # NULL
           THEN /\ settings' = set_user_timezone(settings, c, tz)
                /\ user_data' = [user_data EXCEPT ![c].waiting_for = NULL]
           ELSE UNCHANGED <<settings, user_data>>
    /\ UNCHANGED <<tokens, access, chat_data>>
    /\ PromptFrame

\* one entry of a weekly schedule as parse_with_ai returns it
Lesson == [day_of_week |-> "Monday", start_time |-> <<12, 15>>, end_time |-> <<13, 45>>]
Schedules == {<<>>, <<Lesson>>}

\* the list is stored whatever its length
schedule_import_unchecked(d, events) ==
    [d EXCEPT !.pending_schedule = [present |-> TRUE, events |-> events],
              !.state = "WAITING_FOR_WEEKS"]

\* handle_schedule_import: `if not events or len(events) == 0: return`, then
\* the two keys are set
schedule_import(d, events) ==
    IF Len(events) = 0 THEN d
    ELSE [d EXCEPT !.pending_schedule = [present |-> TRUE, events |-> events],
                   !.state = "WAITING_FOR_WEEKS"]

\* a message that the language model reads as a weekly schedule: a photo
\* (handle_photo_message asks for is_onboarded only), or a text that no
\* earlier branch of handle_text_message takes
handle_schedule_import(c) ==
    /\ is_onboarded(settings, c)
    /\ \E source \in {"text", "photo"}, events \in Schedules :
        /\ source = "text" =>
              /\ user_data[c].state = NULL
              /\ user_data[c].waiting_for = NULL
              /\ chat_data[c].onboard_stage = NULL
        /\ handled' = Update(c, source, Typed("Monday 12:15 Math"), NULL)
        /\ user_data' = [user_data EXCEPT ![c] = schedule_import(@, events)]
    /\ UNCHANGED <<settings, tokens, access, chat_data>>
    /\ PromptFrame

\* an answer to the weeks prompt: its string and its digits where it is a
\* number ("abc" has none and int() raises)
WeeksText(str, digits) == [s |-> str, digits |-> digits]
WeeksTexts ==
    {WeeksText("abc", <<>>), WeeksText("0", <<0>>), WeeksText("2", <<2>>),
     WeeksText("53", <<5, 3>>)}

\* int(text.strip()); 0 < num_weeks <= 52, ValueError otherwise
weeks_number(text) ==
    LET num_weeks == int(text.digits)
    IN  [ok |-> Len(text.digits) > 0 /\ num_weeks > 0 /\ num_weeks <= 52,
         num_weeks |-> num_weeks]

\* how the loop of the import ends: every event created, some of the
\* create_event calls failed, an exception left the loop
ImportOutcomes == {"created", "partly", "raised"}

pop_schedule(d) == [d EXCEPT !.state = NULL, !.pending_schedule = NoList]

\* state == 'WAITING_FOR_WEEKS': handle_weeks_response
weeks_answer(c) ==
    /\ user_data[c].state = "WAITING_FOR_WEEKS"
    /\ \E text \in WeeksTexts, load \in PromptLoads, outcome \in ImportOutcomes :
        LET d == user_data[c]
            number == weeks_number(text)
            known == pytz_knows(get_user_timezone(settings, c))
            imports == number.ok /\ d.pending_schedule.present
                        /\ Len(d.pending_schedule.events) > 0 /\ known
            run == load_then_call(tokens[c], load,
                                  IF imports /\ outcome # "raised"
                                  THEN "create_event" ELSE NULL)
            raised == run.stored_tokens /\ get_credentials_or_notify(load).raised
        IN  /\ Reached(c, load)
            /\ handled' = Answered(c, "weeks", text, run.call)
            /\ user_data' = [user_data EXCEPT ![c] =
                    IF raised THEN d
                    ELSE IF ~run.credentials THEN pop_schedule(d)
                    ELSE IF ~number.ok THEN d
                    ELSE IF ~d.pending_schedule.present
                            \/ Len(d.pending_schedule.events) = 0
                    THEN pop_schedule(d)
                    ELSE IF ~known THEN d
                    ELSE pop_schedule(d)]
    /\ UNCHANGED <<settings, access, chat_data>>
    /\ PromptFrame

\* the chat whose conversation is followed: user_data is kept per chat and
\* no handler reads or writes the keys of another chat
PromptChats == {1}

NextPrompts ==
    \/ \E c \in PromptChats : start(c)
    \/ \E c \in PromptChats : menu_button(c)
    \/ \E c \in PromptChats : settings_callback(c)
    \/ \E c \in PromptChats : reschedule_prompt_callback(c)
    \/ \E c \in PromptChats : cancel_reschedule_callback(c)
    \/ \E c \in PromptChats : tasks_date_text(c)
    \/ \E c \in PromptChats : settings_text(c)
    \/ \E c \in PromptChats : settings_location(c)
    \/ \E c \in PromptChats : handle_schedule_import(c)
    \/ \E c \in PromptChats : weeks_answer(c)
    \/ \E c \in PromptChats : time_choice(c)
    \/ \E c \in PromptChats : time_manual(c)
    \/ \E c \in PromptChats : reschedule_time(c)

SpecPrompts == Init /\ [][NextPrompts]_vars

----------------------------------------------------------------------------
(* The loop of handle_weeks_response, every (week, entry) of it.  written keeps
   what one run of the handler did: the create_event calls in the order they
   were made, and the count it reported. *)

MaxWeeks == 2

ImportEntry(day, st, en) == [day_of_week |-> day, start_time |-> st, end_time |-> en]

\* parse_with_ai checks that the four parts of the two times are integers, not
\* their range: "24:00" reaches the loop
ImportSchedules ==
    {<<ImportEntry("Saturday", <<0, 30>>, <<1, 30>>)>>,
     <<ImportEntry("Monday", <<0, 30>>, <<1, 30>>), Lesson>>,
     <<Lesson, ImportEntry("Monday", <<24, 0>>, <<13, 45>>)>>,
     <<ImportEntry("Sunday", <<23, 30>>, <<0, 30>>)>>}

\* what the create_event calls of one run return, by position in the loop: an
\* event link, None, or an exception
CreateResults ==
    {[k \in 1..(2 * MaxWeeks) |-> "url"],
     [k \in 1..(2 * MaxWeeks) |-> IF k = 1 THEN "none" ELSE IF k = 3 THEN "raised" ELSE "url"],
     [k \in 1..(2 * MaxWeeks) |-> "none"]}

\* the body of the inner loop for one week and one entry: `continue` on a time
\* out of range, else one create_event call
import_iteration(start_date, week, entry, event, result) ==
    LET week_start == plus_timedelta(start_date, week * 7 * MinutesPerDay)
        event_date == get_next_occurrence_of_weekday(week_start, event.day_of_week)
        st == event.start_time
        en == event.end_time
        event_start == replace_hm(event_date, st)
        end0 == replace_hm(event_date, en)
        crosses == en[1] < st[1] \/ (en[1] = st[1] /\ en[2] < st[2])
        event_end == IF end0.wall <= event_start.wall
                     THEN (IF crosses THEN plus_timedelta(end0, MinutesPerDay)
                           ELSE plus_timedelta(event_start, MinutesPerHour))
                     ELSE end0
        event_data == [start_time |-> isoformat(astimezone_utc(event_start)),
                       end_time |-> isoformat(astimezone_utc(event_end))]
        body == create_event(event_data)
    IN  [called |-> in_range(st[1], st[2]) /\ in_range(en[1], en[2]),
         week |-> week, entry |-> entry, day_of_week |-> event.day_of_week,
         event_date |-> date(event_date.wall),
         start |-> body.start, end |-> body.end, result |-> result]

\* for week in range(num_weeks): for event in pending_schedule: the
\* iterations in the order the loop runs them
import_loop(start_date, num_weeks, pending_schedule, results) ==
    [k \in 1..(num_weeks * Len(pending_schedule)) |->
        import_iteration(start_date, (k - 1) \div Len(pending_schedule),
                         ((k - 1) % Len(pending_schedule)) + 1,
                         pending_schedule[((k - 1) % Len(pending_schedule)) + 1],
                         results[k])]

\* the iterations that called create_event
RECURSIVE create_calls(_)
create_calls(iterations) ==
    IF Len(iterations) = 0 THEN <<>>
    ELSE (IF Head(iterations).called THEN <<Head(iterations)>> ELSE <<>>)
            \o create_calls(Tail(iterations))

\* events_created: `if event_url: events_created += 1`
RECURSIVE events_created(_)
events_created(calls) ==
    IF Len(calls) = 0 THEN 0
    ELSE (IF Head(calls).result = "url" THEN 1 ELSE 0) + events_created(Tail(calls))

ImportFrame ==
    UNCHANGED <<now, settings, tokens, running, jobs, lastTick, fires, opsLeft, parsing,
                digestVars, access, chat_data>>

\* a photo or a text that the language model reads as a weekly schedule
schedule_received(c) ==
    /\ is_onboarded(settings, c)
    /\ user_data[c].state = NULL
    /\ \E events \in ImportSchedules :
        /\ handled' = Update(c, "photo", Typed("schedule"), NULL)
        /\ user_data' = [user_data EXCEPT ![c] = schedule_import(@, events)]
    /\ UNCHANGED written
    /\ ImportFrame

\* handle_weeks_response with credentials that load and a number in range:
\* the loop, the reply with the count, the two pops of `finally`
import_weeks(c) ==
    /\ user_data[c].state = "WAITING_FOR_WEEKS"
    /\ user_data[c].pending_schedule.present
    /\ tokens[c]
    /\ \E num_weeks \in 1..MaxWeeks, results \in CreateResults :
        LET tz == get_user_timezone(settings, c)
            pending_schedule == user_data[c].pending_schedule.events
            now_local == datetime_now(tz, now)
            start_date == replace_hm(now_local, <<0, 0>>)
            calls == create_calls(import_loop(start_date, num_weeks,
                                              pending_schedule, results))
        IN  /\ written' = [path |-> "import", chat |-> c, at |-> now,
                           num_weeks |-> num_weeks, pending_schedule |-> pending_schedule,
                           calls |-> calls, events_created |-> events_created(calls)]
            /\ handled' = Answered(c, "weeks", Typed("weeks"), "create_event")
    /\ user_data' = [user_data EXCEPT ![c] = pop_schedule(@)]
    /\ ImportFrame

InitImport == InitCal

ImportChats == {1}

NextImport ==
    \/ time_passes
    \/ \E c \in ImportChats : schedule_received(c)
    \/ \E c \in ImportChats : import_weeks(c)

SpecImport == InitImport /\ [][NextImport]_vars

----------------------------------------------------------------------------
(* The reschedule by text against the events of the calendar: the branch
   waiting_for == 'reschedule_time' of handle_text_message with
   check_availability and reschedule_event acting on `calendar`. *)

\* events().list(timeMin, timeMax) of check_availability: the events that end
\* after timeMin and start before timeMax
events_overlapping(cal, tz, timeMin, timeMax) ==
    {e \in cal : EventEnd(e, tz) > timeMin /\ EventStart(e, tz) < timeMax}

\* the window check_availability asks for: RFC3339 strings in UTC
availability_window(start_dt, end_dt) ==
    LET s == IF start_dt.aware THEN start_dt ELSE utc_localize(start_dt)
        e == IF end_dt.aware THEN end_dt ELSE utc_localize(end_dt)
    IN  [time_min |-> isoformat(astimezone_utc(s)),
         time_max |-> isoformat(astimezone_utc(e))]

\* an exception of the list call is answered with True
check_availability_fail_open(cal, tz, start_dt, end_dt, exclude_event_id, list_ok) ==
    LET w == availability_window(start_dt, end_dt)
        events == events_overlapping(cal, tz, ApiInstant(w.time_min), ApiInstant(w.time_max))
    IN  IF ~list_ok THEN TRUE
        ELSE {e \in events : e.id # exclude_event_id} = {}

\* check_availability: True when the list, the event itself taken out, is
\* empty; False when it is not, and on HttpError or any other exception
check_availability(cal, tz, start_dt, end_dt, exclude_event_id, list_ok) ==
    LET w == availability_window(start_dt, end_dt)
        events == events_overlapping(cal, tz, ApiInstant(w.time_min), ApiInstant(w.time_max))
    IN  IF ~list_ok THEN FALSE
        ELSE IF events = {} THEN TRUE
        ELSE {e \in events : e.id # exclude_event_id} = {}

\* events().update with the body of reschedule_event: the event gets a
\* dateTime start and end
events_update(cal, event_id, body) ==
    {IF e.id = event_id
     THEN [e EXCEPT !.all_day = FALSE, !.start = ApiInstant(body.start),
                    !.end = ApiInstant(body.end)]
     ELSE e : e \in cal}

\* the duration the branch reads from the fetched event: end - start of a
\* dateTime event, one hour for an all-day event
event_duration(e) == IF e.all_day THEN MinutesPerHour ELSE e.end - e.start

\* "24:00" is no time: the range check raises ValueError
MoveTimes == {<<12, 30>>, <<23, 30>>, <<24, 0>>}
MoveDelays == {3 * MinutesPerHour}
ApiFailures == {"none", "get", "list", "update"}
MoveCalendars == {{lunch, holiday, standup}, {party, holiday, early}}

MoveFrame ==
    UNCHANGED <<now, settings, tokens, running, jobs, lastTick, fires, written, parsing,
                digest, access, chat_data>>

\* what the branch did with a text: the event it was about, whether it got to
\* check_availability and whether the list call of the check answered, the
\* window asked for (instants) and the reply
Rescheduling(c, event_id, reached_check, list_ok, w, reply) ==
    [chat |-> c, update |-> "reschedule_text", event_id |-> event_id,
     reached_check |-> reached_check, list_ok |-> list_ok,
     time_min |-> ApiInstant(w.time_min), time_max |-> ApiInstant(w.time_max),
     reply |-> reply]

\* handle_callback_query "resch_{event_id}" on an event of a digest
reschedule_button(c) ==
    /\ tokens[c]
    /\ \E e \in calendar :
        /\ user_data' = [user_data EXCEPT ![c].waiting_for = "reschedule_time",
                                          ![c].rescheduling_event_id = e.id]
        /\ handled' = Answered(c, "callback", Typed("resch"), NULL)
    /\ UNCHANGED <<calendar, opsLeft>>
    /\ MoveFrame

\* the branch waiting_for == 'reschedule_time' with stored tokens that load.
\* by_ai: parse_with_ai read a time, else the "HH:MM" at the end of the text
\* is taken; failing: the first of the three calls of the Calendar API that
\* fails (events().get, the list of check_availability, the update of
\* reschedule_event), if any
reschedule_text(c) ==
    /\ UsesOp
    /\ user_data[c].state = NULL
    /\ user_data[c].waiting_for = "reschedule_time"
    /\ user_data[c].rescheduling_event_id # NULL
    /\ tokens[c]
    /\ \E by_ai \in BOOLEAN, d \in MoveDelays, hm \in MoveTimes,
          failing \in ApiFailures :
        LET get_ok == failing # "get"
            list_ok == failing # "list"
            update_ok == failing # "update"
            tz == get_user_timezone(settings, c)
            event_id == user_data[c].rescheduling_event_id
            T == now + d
            ai_parsed == parse_with_ai(Answer(T, T + HalfHour, "Z", tz), now)
            now_local == datetime_now(tz, now)
            candidate == replace_hm(now_local, hm)
            new_start_dt ==
                IF by_ai
                THEN astimezone_tz(utc_localize(fromisoformat(ai_parsed.start_time)), tz)
                ELSE IF candidate.wall > now_local.wall THEN candidate
                ELSE plus_timedelta(candidate, MinutesPerDay)
            event == CHOOSE e \in calendar : e.id = event_id
            new_end_dt == plus_timedelta(new_start_dt, event_duration(event))
            w == availability_window(new_start_dt, new_end_dt)
            is_available == check_availability(calendar, tz, new_start_dt, new_end_dt,
                                               event_id, list_ok)
            cleared == [user_data EXCEPT ![c] = pop_reschedule(@)]
        IN  IF ~by_ai /\ ~in_range(hm[1], hm[2])
            THEN /\ handled' = Rescheduling(c, event_id, FALSE, FALSE, w,
                                            "Couldn't understand that time")
                 /\ UNCHANGED <<user_data, calendar>>
            ELSE IF ~get_ok
            THEN /\ handled' = Rescheduling(c, event_id, FALSE, FALSE, w, "An error occurred")
                 /\ user_data' = cleared
                 /\ UNCHANGED calendar
            ELSE IF ~is_available
            THEN /\ handled' = Rescheduling(c, event_id, TRUE, list_ok, w, "That time is busy")
                 /\ UNCHANGED <<user_data, calendar>>
            ELSE IF update_ok
            THEN /\ calendar' = events_update(calendar, event_id,
                                    reschedule_event(astimezone_utc(new_start_dt),
                                                     astimezone_utc(new_end_dt)))
                 /\ handled' = Rescheduling(c, event_id, TRUE, list_ok, w, "Task moved")
                 /\ user_data' = cleared
            ELSE /\ handled' = Rescheduling(c, event_id, TRUE, list_ok, w, "Failed to reschedule")
                 /\ user_data' = cleared
                 /\ UNCHANGED calendar
    /\ MoveFrame

InitMove ==
    /\ now = Boot
    /\ \E z \in KnownZones : settings = set_user_timezone(StoredTable, 1, z)
    /\ tokens = [c \in Chats |-> StoredTable[c].onboard_done = 1]
    /\ running = TRUE
    /\ jobs = <<JobId>>
    /\ lastTick = NoTick
    /\ fires = [c \in Chats |-> [k \in {"morning", "evening"} |-> <<>>]]
    /\ opsLeft = MaxOps
    /\ written = NoWrite
    /\ user_data = [c \in Chats |-> NoData]
    /\ handled = NoUpdate
    /\ parsing = NoParse
    /\ calendar \in MoveCalendars
    /\ digest = NoDigest
    /\ access = NoAccess
    /\ chat_data = [c \in Chats |-> NoChatData]

MoveChats == {1}

NextMove ==
    \/ time_passes
    \/ \E c \in MoveChats : reschedule_button(c)
    \/ \E c \in MoveChats : reschedule_text(c)

SpecMove == InitMove /\ [][NextMove]_vars

----------------------------------------------------------------------------
(* Vocabulary of the properties *)

Kinds == {"morning", "evening"}

StoredTime(row, k) == IF k = "morning" THEN row.morning_time ELSE row.evening_time

\* the run `tick` called the sender of kind k for chat c
InvokedIn(tick, c, k) ==
    \E i \in 1..Len(tick.invoked) :
        tick.invoked[i].chat = c /\ tick.invoked[i].kind = k

\* the send_message calls the run `tick` made to chat c for kind k
AttemptsIn(tick, c, k) ==
    Cardinality({i \in 1..Len(tick.attempts) :
        tick.attempts[i].chat = c /\ tick.attempts[i].kind = k})

\* the local calendar day of a recorded fire, in the zone it fired under
LocalDate(f) == date(astimezone(f.at, f.tz))

\* a run of the job happened in this step
TickStep == lastTick'.at # lastTick.at

----------------------------------------------------------------------------
\* C1: a chat gets at most one morning briefing and at most one evening
\* recap per chat-local calendar day.  Stated for the plainest case: two
\* consecutive fires of one kind for one chat, made under the same stored
\* timezone and the same stored digest time, fall on different local days.
C1_OneFirePerLocalDay ==
    \A c \in Chats, k \in Kinds :
        LET q == fires[c][k]
        IN  (Len(q) = 2 /\ q[1].tz = q[2].tz /\ q[1].time = q[2].time)
                => LocalDate(q[1]) # LocalDate(q[2])

\* C2: whatever start_scheduler and stop_scheduler calls were made, the job
\* store holds at most one recurring digest job.
C2_AtMostOneJob == Len(jobs) <= 1

\* the scheduler was stopped while a tick instant passed and runs again
C2_Restarted ==
    /\ running
    /\ jobs = <<JobId>>
    /\ now > Boot
    /\ lastTick.at # now

DstDelta == MinutesPerHour

\* C4: every fire under Europe/Paris happens when the Paris wall clock
\* (UTC+2 before the end of summer time, UTC+1 after) shows the stored
\* time, and of two consecutive fires of one digest, one before and one
\* after the transition, the second is DstDelta later in the UTC day.
C4_DstShift ==
    \A c \in Chats, k \in Kinds :
        LET q == fires[c][k]
        IN  /\ \A i \in 1..Len(q) :
                q[i].tz = "Europe/Paris" =>
                    strftime_HM(q[i].at + (IF q[i].at < DstEnd
                                           THEN 2 * MinutesPerHour
                                           ELSE MinutesPerHour)) = q[i].time
            /\ (/\ Len(q) = 2
                /\ q[1].tz = "Europe/Paris" /\ q[2].tz = "Europe/Paris"
                /\ q[1].time = q[2].time
                /\ q[1].at < DstEnd /\ q[2].at >= DstEnd)
                    => q[2].at % MinutesPerDay = (q[1].at % MinutesPerDay) + DstDelta

\* a 09:00 morning briefing under Europe/Paris fired on the day before and
\* on the day after summer time ended
C4_FiredBothSides ==
    \E c \in Chats :
        LET q == fires[c]["morning"]
        IN  /\ Len(q) = 2
            /\ q[1].tz = "Europe/Paris" /\ q[2].tz = "Europe/Paris"
            /\ q[1].time = <<9, 0>> /\ q[2].time = <<9, 0>>
            /\ q[1].at < DstEnd /\ q[2].at >= DstEnd
            /\ LocalDate(q[2]) = LocalDate(q[1]) + 1

\* C5: every run of the job decides by the settings stored when it runs: a
\* selected chat with a known zone gets a digest exactly when the run's
\* instant, read in the zone now stored, shows the time now stored.
C5_RunUsesStoredSettings ==
    [][(TickStep /\ ~lastTick'.query_failed) =>
        \A c \in Chats :
            (settings[c].present /\ settings[c].onboard_done = 1 /\ pytz_knows(settings[c].tz))
                => \A k \in Kinds :
                        InvokedIn(lastTick', c, k)
                            <=> strftime_HM(astimezone(lastTick'.at, settings[c].tz))
                                    = StoredTime(settings[c], k)]_vars

\* a digest fired by one stored value and its next fire by another, with no
\* call of start_scheduler in between
C5_FiredByOldThenNew ==
    /\ running
    /\ lastTick.at = now
    /\ \E c \in Chats, k \in Kinds :
        LET q == fires[c][k]
        IN  /\ Len(q) = 2
            /\ (q[1].tz # q[2].tz \/ q[1].time # q[2].time)
            /\ q[2].at = now

\* the selected row u is due for kind k at instant t
Due(u, k, t) ==
    pytz_knows(u.tz) /\ strftime_HM(astimezone(t, u.tz)) = StoredTime(u, k)

\* C6: when the handling of one chat meets a failure in a run (an unknown
\* zone, a digest that cannot be computed, a send that raises), every other
\* chat due in that run still has its sender called and a send attempted.
C6_OthersStillAttempted ==
    \A a \in lastTick.faulty :
        \A i \in 1..Len(lastTick.users) :
            LET u == lastTick.users[i]
            IN  u.chat_id # a =>
                    \A k \in Kinds :
                        Due(u, k, lastTick.at) =>
                            /\ InvokedIn(lastTick, u.chat_id, k)
                            /\ AttemptsIn(lastTick, u.chat_id, k) >= 1

\* chat 1, handled first, failed on an unknown zone and chat 2 got its digest
C6_FirstFailedSecondServed ==
    /\ 1 \in lastTick.faulty
    /\ \E i \in 1..Len(lastTick.users) :
            lastTick.users[i].chat_id = 1 /\ ~pytz_knows(lastTick.users[i].tz)
    /\ \E k \in Kinds : InvokedIn(lastTick, 2, k)

\* C7: no run of the job lets an exception reach the scheduler, and after a
\* failing run, unless stop_scheduler was called, the job is still
\* registered on a running scheduler.
C7_NoEscape ==
    /\ ~lastTick.escaped
    /\ ((lastTick.query_failed \/ lastTick.faulty # {}) /\ opsLeft = MaxOps)
            => (running /\ jobs = <<JobId>>)

\* a run whose settings query failed, after a run had already fired a digest
C7_QueryFailed ==
    /\ lastTick.query_failed
    /\ lastTick.at = now
    /\ running
    /\ \E c \in Chats, k \in Kinds : Len(fires[c][k]) > 0

\* C8: one fire makes at most one send_message call per chat.
C8_OneSendAttempt ==
    \A c \in Chats, k \in Kinds : AttemptsIn(lastTick, c, k) <= 1

\* what a run at instant t decides for a chat from that chat's row alone
Decides(row, k, t) ==
    row.present /\ row.onboard_done = 1 /\ row.tz # NULL /\ Due(row, k, t)

\* C9: an update handled for chat a leaves the row of every other chat b as
\* it was; a run of the job leaves every row as it was and what it decides
\* for a chat b is decided by b's row alone, whatever the other rows hold
\* and however the other chats' digests fare.
C9_OtherChatsUntouched ==
    [][/\ settings' # settings =>
            \A a \in Chats : UserOp(a) =>
                \A b \in Chats \ {a} : settings'[b] = settings[b]
       /\ TickStep =>
            /\ settings' = settings
            /\ ~lastTick'.query_failed =>
                \A b \in Chats, k \in Kinds :
                    InvokedIn(lastTick', b, k) <=> Decides(settings[b], k, lastTick'.at)
      ]_vars

\* chat 2 moved itself to Europe/Paris and chat 1, its row as stored, was
\* served in the same run as chat 2
C9_NeighbourChanged ==
    /\ settings[2].present /\ settings[2].tz = "Europe/Paris"
    /\ settings[1] = StoredTable[1]
    /\ \E i \in 1..Len(lastTick.users) : lastTick.users[i].chat_id = 2
    /\ \E k \in Kinds : InvokedIn(lastTick, 1, k)

\* the body's dateTime texts are written in UTC: offset "+00:00"
WrittenInUtc ==
    written.path # "none" =>
        (written.start.suffix = "+00:00" /\ written.end.suffix = "+00:00")

\* the instants the API takes from the body are the instants that were meant
WrittenIsMeant ==
    written.path # "none" =>
        (ApiInstant(written.start) = written.true_start
            /\ ApiInstant(written.end) = written.true_end)

\* C10: on every creation and reschedule path, the start and the end written
\* with timeZone 'UTC' are the event's instants expressed in UTC, never a
\* naive or a local wall clock.
C10_WritesTrueUtcInstant == WrittenInUtc /\ WrittenIsMeant

\* C11: every start instant that parsing a text or voice task message
\* produces is strictly later than the instant of parsing, whatever instant
\* the message names.
C11_DueAfterNow ==
    written.path \in {"text", "voice"} => ApiInstant(written.start) > written.at

\* the minute of the day a wall clock shows
minute_of_day(wall) == wall % MinutesPerDay

\* C12: a lone "HH:MM" typed as the new time of an event resolves, in the
\* chat's timezone, to that time today when it is later than now and to that
\* time tomorrow otherwise (a time equal to now counts as passed).
C12_LoneTimeTodayOrTomorrow ==
    written.path = "reschedule_hhmm" =>
        LET tz == get_user_timezone(settings, written.chat)
            due_local == astimezone(ApiInstant(written.start), tz)
            now_local == astimezone(written.at, tz)
            asked == written.asked[1] * MinutesPerHour + written.asked[2]
        IN  /\ strftime_HM(due_local) = written.asked
            /\ date(due_local) = IF asked > minute_of_day(now_local)
                                  THEN date(now_local)
                                  ELSE date(now_local) + 1

\* the time a typed "H:M" names has its hour outside 0..23 or its minute
\* outside 0..59
OutOfRange(text) == ~in_range(int(text.hour), int(text.minute))

TimeInputStates == {"morning_time_manual", "evening_time_manual", "reschedule_time"}
ErrorReplies == {"Invalid time format", "Couldn't understand that time"}

\* C13: a time typed in a time-input state whose hour is outside 0..23 or
\* whose minute is outside 0..59 gets an error reply, no time is stored or
\* applied, and the chat stays in the same input state.
C13_OutOfRangeRejected ==
    (/\ handled # NoUpdate
     /\ handled.waiting_for \in TimeInputStates
     /\ handled.text \in TimeTexts
     /\ OutOfRange(handled.text))
        => /\ handled.reply \in ErrorReplies
           /\ ~handled.stored
           /\ user_data[handled.chat].waiting_for = handled.waiting_for

\* the instant of the midnight that begins local day d in zone tz
LocalMidnight(tz, d) == localize_instant(tz, d * MinutesPerDay)

\* the local day of the digest's run
DigestDay == date(astimezone(digest.at, digest.tz))

\* C14: the query of a digest covers the chat-local day of its run: it
\* begins at that day's local midnight and ends with the last minute before
\* the next local midnight, both as UTC instants, in every zone and on every
\* day.
C14_QueryCoversLocalDay ==
    digest.kind # "none" =>
        /\ digest.timeMin = LocalMidnight(digest.tz, DigestDay)
        /\ digest.timeMax + 1 = LocalMidnight(digest.tz, DigestDay + 1)

\* the message says something
HasBody(text) ==
    ~(text.head = "" /\ text.tasks = <<>> /\ text.keyboard = <<>> /\ text.foot = "")

\* C15: a digest whose query returned no events says so in words (the
\* morning briefing by its "No tasks for today yet" text, the evening recap
\* by its "No uncompleted tasks" line), and no digest is sent with an empty
\* body.
C15_EmptyDayIsSaid ==
    digest.kind # "none" =>
        /\ HasBody(digest.text)
        /\ digest.queried = 0 =>
            IF digest.kind = "morning" THEN digest.text.head = NoTasksMorning
            ELSE digest.text.foot = NoTasksEvening

\* a morning briefing on a day with no events, in a calendar that holds
\* events on other days
C15_NothingToday ==
    /\ digest.kind = "morning"
    /\ digest.queried = 0
    /\ calendar # {}
    /\ digest.text.head = NoTasksMorning

\* C16: the morning briefing lists every all-day event before every timed
\* event, and the timed events by ascending start.
C16_AllDayFirstThenByTime ==
    digest.kind = "morning" =>
        LET l == digest.text.tasks
        IN  \A i, j \in 1..Len(l) :
                i < j => /\ l[j].all_day => l[i].all_day
                         /\ (~l[i].all_day /\ ~l[j].all_day) => l[i].start <= l[j].start

\* the events a digest names, in its text or on its buttons
Named(d) == d.text.tasks \o d.text.keyboard

\* C20: a digest is built from the events read at its run, and it names no
\* event that was read as deleted or as done.
C20_NoDoneOrDeletedNamed ==
    digest.kind # "none" =>
        \A i \in 1..Len(Named(digest)) :
            /\ ~startswith(Named(digest)[i].read, DONE)
            /\ ~startswith(Named(digest)[i].read, CANCELLED)

\* C17: while a task message is being parsed (from the start of its parse to
\* its result) no run of the scheduler's job happens and neither the
\* settings, the stored tokens nor any chat's conversation state change.
C17_NothingRunsWhileParsing ==
    [][(parsing # NoParse /\ parsing' = parsing)
        => UNCHANGED <<lastTick, settings, tokens, user_data>>]_vars

\* C21: a run of the job calls a digest sender, and attempts a send, only
\* for chats whose row exists with onboard_done = 1 and a timezone.
C21_OnlyOnboardedWithZone ==
    [][TickStep =>
        \A c \in Chats :
            (\E k \in Kinds : InvokedIn(lastTick', c, k) \/ AttemptsIn(lastTick', c, k) > 0)
                => /\ settings[c].present
                   /\ settings[c].onboard_done = 1
                   /\ settings[c].tz # NULL]_vars

\* a run at an instant when the local clock of chat 2, which has a row with a
\* known zone but has not signed in, read its morning_time or evening_time:
\* chat 2 was passed over
C21_NotOnboardedPassedOver ==
    /\ lastTick.at = now
    /\ ~lastTick.query_failed
    /\ settings[2].present /\ settings[2].onboard_done = 0
    /\ settings[2].tz # NULL
    /\ \E k \in Kinds : Due(settings[2], k, lastTick.at)
    /\ \A k \in Kinds : ~InvokedIn(lastTick, 2, k) /\ AttemptsIn(lastTick, 2, k) = 0

\* the instants at which the model's clock can stand, short of the horizon
TickInstants == {h * MinutesPerHour : h \in 0..(MaxHours - 1)}

\* the next run of the job comes at instant t, and at t the local clock of
\* chat c reads its morning_time
MorningComesAt(c, t) ==
    /\ running /\ Len(jobs) > 0
    /\ NextTick(now) = t
    /\ selected(settings[c])
    /\ Due(settings[c], "morning", t)

\* the run at instant t called bot.send_message for chat c's morning digest
\* (the briefing or the fallback greeting)
MorningSendAt(c, t) == lastTick.at = t /\ AttemptsIn(lastTick, c, "morning") > 0

\* C22: while the job keeps running, whenever the next tick falls on the
\* minute a signed-in chat's local clock reads its morning_time, a morning
\* message is sent to that chat by that day's run, whatever becomes of the
\* other chats' digests in the same run.
C22_MorningEventuallySent ==
    \A c \in Chats, t \in TickInstants :
        MorningComesAt(c, t) ~> MorningSendAt(c, t)

\* C23: in every step, a chat's onboard_done becomes 1 only together with
\* the storing of its Google tokens; a step that does not store tokens for
\* the chat leaves its flag as it was (so a callback that fails or is
\* malformed changes neither); and a flag that is 1 stays 1.
C23_OnboardedOnlyWithTokens ==
    [][\A c \in Chats :
        /\ (settings[c].onboard_done # 1 /\ settings'[c].onboard_done = 1)
                => (~tokens[c] /\ tokens'[c])
        /\ tokens'[c] = tokens[c] => settings'[c].onboard_done = settings[c].onboard_done
        /\ settings[c].onboard_done = 1 => settings'[c].onboard_done = 1]_vars

\* chat 2 signed in through the callback, and chat 1, signed in before,
\* has changed its timezone since
C23_SignedInAndChanged ==
    /\ settings[2].onboard_done = 1 /\ tokens[2]
    /\ settings[1].onboard_done = 1 /\ settings[1].tz = "Europe/Paris"

\* C24: a handler run that called create_event, mark_event_done,
\* reschedule_event or cancel_event for a chat had read the chat's stored
\* tokens and been given credentials by the load before; a run that found
\* no stored tokens, or whose load gave no credentials (a row with a field
\* missing, an invalid grant, an exception), called none of them.
C24_MutationAfterCredentials ==
    access # NoAccess =>
        /\ access.call # NULL =>
              /\ access.stored_tokens
              /\ access.load \in {"valid", "refreshed", "refresh_failed"}
        /\ (~access.stored_tokens
            \/ access.load \in {"invalid_grant", "incomplete", "value_error"})
              => access.call = NULL

\* chat 2, signed in since, had an event cancelled with refreshed credentials
C24_CancelledAfterRefresh ==
    /\ access # NoAccess
    /\ access.chat = 2
    /\ access.call = "cancel_event"
    /\ access.load = "refreshed"

\* the place of a stage in the order of the questions; the key popped by
\* finish_onboarding counts as the step of the Google link
StageRank(stage) ==
    CASE stage = "ask_name" -> 1
      [] stage \in {"timezone", "timezone_manual", "timezone_utc_list"} -> 2
      [] stage \in {"ask_morning_time", "ask_morning_time_manual"} -> 3
      [] stage \in {"ask_evening_time", "ask_evening_time_manual"} -> 4
      [] stage = NULL -> 5

\* the update is an answer the stage accepts
ValidAnswer(stage, u) ==
    CASE stage = "ask_name" -> u.update = "text" /\ u.text.s # ""
      [] stage = "timezone" -> u.update = "location" /\ u.tz # NULL
      [] stage = "timezone_manual" -> u.update = "text" /\ pytz_knows(u.text.s)
      [] stage = "timezone_utc_list" ->
            u.update = "text" /\ parse_utc_offset(u.text.s) # NULL
      [] OTHER ->
            /\ u.update = "text"
            /\ Len(u.text.parts) = 2
            /\ in_range(int(u.text.parts[1]), int(u.text.parts[2]))

\* the row holds what the answer gave
AnswerStored(stage, u, row) ==
    CASE stage = "ask_name" -> row.user_name = u.text.s
      [] stage = "timezone" -> row.tz = u.tz
      [] stage = "timezone_manual" -> row.tz = u.text.s
      [] stage = "timezone_utc_list" -> row.tz = parse_utc_offset(u.text.s)
      [] stage \in {"ask_morning_time", "ask_morning_time_manual"} ->
            row.morning_time = <<int(u.text.parts[1]), int(u.text.parts[2])>>
      [] OTHER ->
            row.evening_time = <<int(u.text.parts[1]), int(u.text.parts[2])>>

C26_MenuLeavesNoPrompt ==
    (handled # NoUpdate /\ handled.update \in {"start", "menu"}) =>
        LET d == user_data[handled.chat]
        IN  /\ d.state = NULL
            /\ ~d.pending_schedule.present
            /\ d.rescheduling_event_id = NULL
            /\ \/ d.waiting_for = NULL
               \/ /\ handled.update = "menu"
                  /\ handled.text.s = "Tasks for a Date"
                  /\ d.waiting_for = "tasks_date"

\* chat 1 has pressed "Tasks for a Date" after its Google grant was found
\* revoked by a callback
C26_AskedForDate ==
    /\ handled # NoUpdate
    /\ handled.chat = 1
    /\ handled.update = "menu"
    /\ handled.text.s = "Tasks for a Date"
    /\ user_data[1].waiting_for = "tasks_date"
    /\ ~tokens[1]

\* C27: when the update handled last for a chat is the "Cancel reschedule"
\* button, the chat is not waiting for a new time and its user_data holds
\* no 'rescheduling_event_id', and the handler has called no function of
\* calendar_service.
C27_CancelClears ==
    (/\ handled # NoUpdate
     /\ handled.update = "callback"
     /\ handled.text.s = "cancel_reschedule")
        => /\ user_data[handled.chat].waiting_for # "reschedule_time"
           /\ user_data[handled.chat].rescheduling_event_id = NULL
           /\ handled.call = NULL

\* C28: in every state of every chat, waiting_for = 'reschedule_time' comes
\* with a rescheduling_event_id.
C28_RescheduleHasEvent ==
    \A c \in Chats :
        user_data[c].waiting_for = "reschedule_time"
            => user_data[c].rescheduling_event_id # NULL

\* chat 1 is asked for a new time again, after a first answer that was
\* refused as busy
C28_AskedForNewTime ==
    /\ user_data[1].waiting_for = "reschedule_time"
    /\ user_data[1].rescheduling_event_id = "ev1"
    /\ handled # NoUpdate
    /\ handled.chat = 1
    /\ handled.update = "text"
    /\ handled.reply = "That time is busy"

\* C29: in every state of every chat, state = 'WAITING_FOR_WEEKS' comes with
\* a pending_schedule that is a list of at least one entry.
C29_WaitingHasSchedule ==
    \A c \in Chats :
        user_data[c].state = "WAITING_FOR_WEEKS"
            => /\ user_data[c].pending_schedule.present
               /\ Len(user_data[c].pending_schedule.events) > 0

\* chat 1 is in the weeks prompt after an answer that was no number of weeks
C29_AskedForWeeksAgain ==
    /\ user_data[1].state = "WAITING_FOR_WEEKS"
    /\ handled # NoUpdate
    /\ handled.chat = 1
    /\ handled.update = "weeks"
    /\ handled.text.s = "abc"

\* C30: when the update handled last for a chat is an answer to the weeks
\* prompt: if the answer is no integer in 1..52 no event was created and the
\* chat is still in the prompt with its schedule; if it is one, 'state' and
\* 'pending_schedule' are gone.
C30_WeeksAnswerHandled ==
    (handled # NoUpdate /\ handled.update = "weeks") =>
        LET d == user_data[handled.chat]
        IN  IF weeks_number(handled.text).ok
            THEN d.state = NULL /\ ~d.pending_schedule.present
            ELSE /\ handled.call = NULL
                 /\ d.state = "WAITING_FOR_WEEKS"
                 /\ d.pending_schedule.present

\* the local date, in zone z, of an instant written to the API
WrittenDate(z, text) == date(astimezone(ApiInstant(text), z))

\* the weekday of a day number, Monday = 0
WeekdayOfDate(d) == (d + 5) % 7

\* the user's local date when the import ran
ImportToday == date(astimezone(written.at, get_user_timezone(settings, written.chat)))

\* at most one create_event call for a week and an entry, and no more events
\* counted than weeks times entries
OneCallPerWeekAndEntry ==
    written.path = "import" =>
        /\ \A i, j \in DOMAIN written.calls :
              (written.calls[i].week = written.calls[j].week
                  /\ written.calls[i].entry = written.calls[j].entry) => i = j
        /\ written.events_created <= written.num_weeks * Len(written.pending_schedule)

\* the date event_date the loop computes is on the entry's weekday, in the
\* seven days from today + 7 * week
ComputedDateInWindow ==
    written.path = "import" =>
        \A k \in DOMAIN written.calls :
            LET call == written.calls[k]
            IN  /\ WeekdayOfDate(call.event_date) = weekday_map(call.day_of_week)
                /\ ImportToday + 7 * call.week <= call.event_date
                /\ call.event_date <= ImportToday + 7 * call.week + 6

\* the event the calendar holds starts, on the user's clock, on the entry's
\* weekday in the seven days from today + 7 * week, and the events of one
\* entry in consecutive weeks start seven days apart
WrittenDateInWindow ==
    written.path = "import" =>
        LET z == get_user_timezone(settings, written.chat)
        IN  /\ \A k \in DOMAIN written.calls :
                  LET call == written.calls[k]
                      d == WrittenDate(z, call.start)
                  IN  /\ WeekdayOfDate(d) = weekday_map(call.day_of_week)
                      /\ ImportToday + 7 * call.week <= d
                      /\ d <= ImportToday + 7 * call.week + 6
            /\ \A i, j \in DOMAIN written.calls :
                  (written.calls[i].entry = written.calls[j].entry
                      /\ written.calls[j].week = written.calls[i].week + 1)
                  => WrittenDate(z, written.calls[j].start)
                        = WrittenDate(z, written.calls[i].start) + 7

\* C31: a weekly import for N weeks calls create_event at most once for a week
\* and an entry, counts no more than N times the number of entries, and the
\* event of week w of an entry falls on the entry's weekday within the seven
\* days from today + 7w, so that consecutive weeks are seven days apart.
C31_ImportWeeks == OneCallPerWeekAndEntry /\ WrittenDateInWindow

\* the event o of the calendar overlaps the interval from s to e
Overlaps(o, z, s, e) == EventEnd(o, z) > s /\ EventStart(o, z) < e

\* the text just handled got to the availability check
CheckedText(h) == h.chat # 0 /\ h.update = "reschedule_text" /\ h.reached_check

\* a step moves an event only after a check that answered, for the interval
\* the event is moved to, with no other event of the calendar overlapping it
MovedOnlyWhenFree ==
    calendar' # calendar =>
        /\ CheckedText(handled')
        /\ handled'.list_ok
        /\ \E e \in calendar' \ calendar :
              /\ e.id = handled'.event_id
              /\ e.start = handled'.time_min
              /\ e.end = handled'.time_max
              /\ calendar' \ {e} = {o \in calendar : o.id # e.id}
              /\ \A o \in calendar : o.id # e.id =>
                    ~Overlaps(o, get_user_timezone(settings, handled'.chat), e.start, e.end)

\* a text whose slot is busy, or whose check failed, leaves the calendar as
\* it was and the prompt pending for the same event
BusyKeepsPrompt ==
    (/\ CheckedText(handled')
     /\ \/ ~handled'.list_ok
        \/ \E o \in calendar :
              /\ o.id # handled'.event_id
              /\ Overlaps(o, get_user_timezone(settings, handled'.chat),
                          handled'.time_min, handled'.time_max))
    => /\ calendar' = calendar
       /\ user_data' = user_data
       /\ user_data[handled'.chat].waiting_for = "reschedule_time"
       /\ user_data[handled'.chat].rescheduling_event_id = handled'.event_id
       /\ handled'.reply = "That time is busy"

\* C32: a reschedule by text moves the event only when the availability check
\* finds no other event (the event itself left out) overlapping the new
\* interval; when the slot is busy or the check fails the event stays as it
\* was and the reschedule prompt stays pending.
C32_MovesOnlyIntoFreeSlot == [][MovedOnlyWhenFree /\ BusyKeepsPrompt]_vars

\* C32: an event was moved in a calendar that holds other events, and the
\* window asked for began where one of them ends
C32_MovedNextToAnother ==
    /\ CheckedText(handled)
    /\ handled.reply = "Task moved"
    /\ \E o \in calendar :
          /\ o.id # handled.event_id
          /\ EventEnd(o, get_user_timezone(settings, handled.chat)) = handled.time_min

====
